---- MODULE Spec2Model ----
(***************************************************************************)
(* A model of the query pipeline of the AI Data Query System:              *)
(* routes/query_router.py (the /query route), services/query_processor.py  *)
(* (QueryProcessor) and db/mysql.py (MySQL.execute_query).                 *)
(*                                                                         *)
(* Text that the code searches with Python's `in` is a sequence of         *)
(* one-character strings, so substring search, lower() and strip() are     *)
(* computed and not assumed.  The answer of the generative service is a    *)
(* sequence of tokens (prose, fence markers, line breaks, JSON payloads).  *)
(***************************************************************************)
EXTENDS Integers, Sequences, FiniteSets, TLC

VARIABLES
    pc,               \* position of the request in route + process_query
    mongo_docs,       \* documents of the client_profiles collection
    mysql_pool,       \* MySQL.pool is set (connect() succeeded)
    mysql_rows,       \* rows of the investments table
    user_query,       \* request.query
    gemini_analysis,  \* what generate_content(analysis_prompt) did
    mongo_read,       \* what the profile-store read did ("none" if not read)
    mysql_read,       \* what the transaction-store read did
    gemini_summary,   \* what generate_content(summary_prompt) did
    analysis,         \* process_query: analysis
    raw_data,         \* process_query: raw_data
    text_response,    \* _format_response: text_response
    table_data,       \* _format_response: table_data
    chart_data,       \* _format_response: chart_data
    result,           \* value process_query returns to the route
    response,         \* what the route sends back
    requests,         \* the locals of the requests in flight together
    calls             \* external calls and store reads issued by the request

vars == <<pc, mongo_docs, mysql_pool, mysql_rows, user_query, gemini_analysis,
          mongo_read, mysql_read, gemini_summary, analysis, raw_data,
          text_response, table_data, chart_data, result, response, requests,
          calls>>

(***************************************************************************)
(* Bounds of the model.                                                    *)
(***************************************************************************)
MaxLiveProfiles == 2
MaxLiveRows == 2
\* size of the large collection: one more than the largest limit() of the
\* profile read
LargeCollectionSize == 21

(***************************************************************************)
(* Python string operations on sequences of characters.                    *)
(***************************************************************************)
LowerChar(c) ==
    CASE c = "A" -> "a" [] c = "B" -> "b" [] c = "C" -> "c" [] c = "D" -> "d"
      [] c = "E" -> "e" [] c = "F" -> "f" [] c = "G" -> "g" [] c = "H" -> "h"
      [] c = "I" -> "i" [] c = "J" -> "j" [] c = "K" -> "k" [] c = "L" -> "l"
      [] c = "M" -> "m" [] c = "N" -> "n" [] c = "O" -> "o" [] c = "P" -> "p"
      [] c = "Q" -> "q" [] c = "R" -> "r" [] c = "S" -> "s" [] c = "T" -> "t"
      [] c = "U" -> "u" [] c = "V" -> "v" [] c = "W" -> "w" [] c = "X" -> "x"
      [] c = "Y" -> "y" [] c = "Z" -> "z" [] OTHER -> c

\* str.lower()
Lower(s) == [i \in 1..Len(s) |-> LowerChar(s[i])]

\* sub in s
Contains(sub, s) ==
    \E i \in 1..(Len(s) - Len(sub) + 1) :
        \A k \in 1..Len(sub) : s[i + k - 1] = sub[k]

\* any(word in s for word in words)
AnyIn(words, s) == \E k \in 1..Len(words) : Contains(words[k], s)

IsSpace(c) == c \in {" ", "\n", "\t"}

RECURSIVE LStrip(_)
LStrip(s) == IF s # <<>> /\ IsSpace(Head(s)) THEN LStrip(Tail(s)) ELSE s

RECURSIVE RStrip(_)
RStrip(s) ==
    IF s # <<>> /\ IsSpace(s[Len(s)]) THEN RStrip(SubSeq(s, 1, Len(s) - 1)) ELSE s

\* str.strip()
Strip(s) == RStrip(LStrip(s))

\* seq[:n]
Take(s, n) == SubSeq(s, 1, IF Len(s) < n THEN Len(s) ELSE n)

\* The stable descending order of list.sort(key, reverse=True) and of an
\* ORDER BY ... DESC: keys[i] is the key of s[i].
StableSortDesc(s, keys) ==
    LET n == Len(s)
        Rank(i) == 1 + Cardinality({j \in 1..n :
                        keys[j] > keys[i] \/ (keys[j] = keys[i] /\ j < i)})
    IN  [p \in 1..n |-> s[CHOOSE i \in 1..n : Rank(i) = p]]

(***************************************************************************)
(* Query texts of the requests.                                            *)
(***************************************************************************)
QScenarioA ==
    <<"W","h","a","t"," ","a","r","e"," ","t","h","e"," ","t","o","p"," ","f","i","v","e"," ","p","o","r","t","f","o","l","i","o","s"," ","o","f"," ","o","u","r"," ","w","e","a","l","t","h"," ","m","e","m","b","e","r","s","?">>
QScenarioB ==
    <<"B","r","e","a","k","u","p"," ","o","f"," ","p","o","r","t","f","o","l","i","o"," ","v","a","l","u","e","s"," ","b","y"," ","r","e","l","a","t","i","o","n","s","h","i","p"," ","m","a","n","a","g","e","r">>
QScenarioC ==
    <<"S","h","o","w"," ","m","e"," ","c","l","i","e","n","t","s"," ","f","r","o","m"," ","M","u","m","b","a","i"," ","w","i","t","h"," ","c","o","n","s","e","r","v","a","t","i","v","e"," ","r","i","s","k">>
QRanchiAggressive ==
    <<"R","a","n","c","h","i"," ","c","l","i","e","n","t","s"," ","w","i","t","h"," ","a","g","g","r","e","s","s","i","v","e"," ","r","i","s","k">>
QTwoCities ==
    <<"C","l","i","e","n","t","s"," ","i","n"," ","M","u","m","b","a","i"," ","o","r"," ","R","a","n","c","h","i">>
QListAll ==
    <<"L","i","s","t"," ","a","l","l"," ","c","l","i","e","n","t","s">>
QVirat ==
    <<"V","i","r","a","t"," ","K","o","h","l","i"," ","i","n","v","e","s","t","m","e","n","t">>
QTopDistribution ==
    <<"T","o","p"," ","d","i","s","t","r","i","b","u","t","i","o","n">>
QShort ==
    <<"h","i">>
QBlank ==
    <<" "," ","a"," ">>

Queries ==
    {QScenarioA, QScenarioB, QScenarioC, QRanchiAggressive, QTwoCities,
     QListAll, QVirat, QTopDistribution, QShort, QBlank}

(***************************************************************************)
(* The intent descriptor: a Python value.  kind is the Python type of the  *)
(* value; for a dict, keys is its key set and the other fields hold the    *)
(* values of the keys that are present.  data_sources_kind is the type of  *)
(* the data_sources value ("list" or "null").                              *)
(***************************************************************************)
NoAnalysis ==
    [kind |-> "none", keys |-> {}, query_type |-> <<>>,
     data_sources |-> <<>>, data_sources_kind |-> "list",
     visualization_type |-> "", key_entities |-> <<>>,
     intent_summary |-> <<>>, suggested_aggregations |-> <<>>,
     user_query |-> <<>>]

DescriptorKeys ==
    {"query_type", "data_sources", "visualization_type", "key_entities",
     "intent_summary", "suggested_aggregations"}

top_performers == <<"t","o","p","_","p","e","r","f","o","r","m","e","r","s">>
breakdown_analysis == <<"b","r","e","a","k","d","o","w","n","_","a","n","a","l","y","s","i","s">>
portfolio_summary == <<"p","o","r","t","f","o","l","i","o","_","s","u","m","m","a","r","y">>
client_info == <<"c","l","i","e","n","t","_","i","n","f","o">>
transaction_data == <<"t","r","a","n","s","a","c","t","i","o","n","_","d","a","t","a">>

TopWords ==
    << <<"t","o","p">>, <<"b","e","s","t">>, <<"h","i","g","h","e","s","t">>,
       <<"m","o","s","t">> >>
BreakdownWords ==
    << <<"b","r","e","a","k","u","p">>, <<"b","r","e","a","k","d","o","w","n">>,
       <<"d","i","s","t","r","i","b","u","t","i","o","n">> >>
PortfolioWords ==
    << <<"p","o","r","t","f","o","l","i","o">>,
       <<"i","n","v","e","s","t","m","e","n","t">> >>

\* the dict literal returned by _fallback_query_analysis
FallbackDescriptor(query_type, visualization_type) ==
    [kind |-> "dict", keys |-> DescriptorKeys, query_type |-> query_type,
     data_sources |-> <<"mongodb", "mysql">>, data_sources_kind |-> "list",
     visualization_type |-> visualization_type, key_entities |-> <<>>,
     intent_summary |-> query_type,
     suggested_aggregations |-> <<"count", "sum">>,
     user_query |-> <<>>]

\* the breakdown rule tried before the top rule
fallback_query_analysis_reordered(q) ==
    LET query_lower == Lower(q)
    IN  IF AnyIn(BreakdownWords, query_lower)
          THEN FallbackDescriptor(breakdown_analysis, "pie_chart")
        ELSE IF AnyIn(TopWords, query_lower)
          THEN FallbackDescriptor(top_performers, "bar_chart")
        ELSE IF AnyIn(PortfolioWords, query_lower)
          THEN FallbackDescriptor(portfolio_summary, "table")
        ELSE FallbackDescriptor(client_info, "text")

fallback_query_analysis(q) ==
    LET query_lower == Lower(q)
    IN  IF AnyIn(TopWords, query_lower)
          THEN FallbackDescriptor(top_performers, "bar_chart")
        ELSE IF AnyIn(BreakdownWords, query_lower)
          THEN FallbackDescriptor(breakdown_analysis, "pie_chart")
        ELSE IF AnyIn(PortfolioWords, query_lower)
          THEN FallbackDescriptor(portfolio_summary, "table")
        ELSE FallbackDescriptor(client_info, "text")

(***************************************************************************)
(* The answer of the generative service to the analysis prompt.            *)
(* JSON payload tokens and the Python value json.loads gives for each.     *)
(***************************************************************************)
JsonFull ==
    [kind |-> "dict", keys |-> DescriptorKeys, query_type |-> transaction_data,
     data_sources |-> <<"mongodb", "mysql">>, data_sources_kind |-> "list",
     visualization_type |-> "pie_chart", key_entities |-> <<"clients">>,
     intent_summary |-> transaction_data,
     suggested_aggregations |-> <<"sum">>, user_query |-> <<>>]

JsonValue(tok) ==
    CASE tok = "J_FULL" -> JsonFull
      [] tok = "J_MONGO_ONLY" ->
           [JsonFull EXCEPT !.keys = @ \cup {"user_query"},
                            !.user_query = QRanchiAggressive,
                            !.query_type = client_info,
                            !.data_sources = <<"mongodb">>,
                            !.visualization_type = "table"]
      [] tok = "J_MYSQL_ONLY" ->
           [JsonFull EXCEPT !.data_sources = <<"mysql">>,
                            !.visualization_type = "scatter_chart"]
      [] tok = "J_LINE" ->
           [JsonFull EXCEPT !.query_type = portfolio_summary,
                            !.visualization_type = "line_chart"]
      [] tok = "J_MISSING" ->
           [JsonFull EXCEPT !.keys = {"query_type", "key_entities",
                                      "intent_summary"},
                            !.data_sources = <<>>,
                            !.visualization_type = "",
                            !.suggested_aggregations = <<>>]
      [] tok = "J_NULL_SOURCES" ->
           [JsonFull EXCEPT !.data_sources = <<>>,
                            !.data_sources_kind = "null"]
      [] tok = "J_LIST" -> [NoAnalysis EXCEPT !.kind = "list"]

JsonTokens ==
    {"J_FULL", "J_MONGO_ONLY", "J_MYSQL_ONLY", "J_LINE", "J_MISSING",
     "J_NULL_SOURCES", "J_LIST"}

\* json.loads: the text parses when it is exactly one JSON payload
json_loads(text) ==
    IF Len(text) = 1 /\ text[1] \in JsonTokens
      THEN [raised |-> FALSE, value |-> JsonValue(text[1])]
      ELSE [raised |-> TRUE, value |-> NoAnalysis]

GeminiAnalysisOutcomes ==
    {[raises |-> TRUE, text |-> <<>>]} \cup
    {[raises |-> FALSE, text |-> t] : t \in
       { <<"J_FULL">>,
         <<"prose", "\n", "FENCE_JSON", "\n", "J_MONGO_ONLY", "\n", "FENCE", "\n", "prose">>,
         <<"FENCE", "\n", "J_MYSQL_ONLY", "\n", "FENCE">>,
         <<"\n", "J_LINE", "\n">>,
         <<"prose">>,
         <<"FENCE_JSON", "\n", "J_FULL">>,
         <<"J_MISSING">>,
         <<"J_NULL_SOURCES">>,
         <<"J_LIST">> }}

\* str.find(marker, start): first position >= start of a token that holds
\* the marker, 0 when there is none (-1 in Python)
FindFence(text, json_tagged, start) ==
    LET hits == {i \in start..Len(text) :
                   IF json_tagged THEN text[i] = "FENCE_JSON"
                                  ELSE text[i] \in {"FENCE", "FENCE_JSON"}}
    IN  IF hits = {} THEN 0 ELSE CHOOSE i \in hits : \A j \in hits : i <= j

\* text[json_start:json_end]; a json_end of -1 stops before the last element
FenceInterior(text, json_start) ==
    LET json_end == FindFence(text, FALSE, json_start)
    IN  IF json_end = 0 THEN SubSeq(text, json_start, Len(text) - 1)
        ELSE SubSeq(text, json_start, json_end - 1)

ExtractJson(analysis_text) ==
    IF FindFence(analysis_text, TRUE, 1) # 0
      THEN Strip(FenceInterior(analysis_text,
                               FindFence(analysis_text, TRUE, 1) + 1))
    ELSE IF FindFence(analysis_text, FALSE, 1) # 0
      THEN Strip(FenceInterior(analysis_text,
                               FindFence(analysis_text, FALSE, 1) + 1))
    ELSE analysis_text

\* process_query if line 65 kept a user_query the descriptor already holds
with_user_query_setdefault(a, q) ==
    IF "user_query" \in a.keys THEN a
    ELSE [a EXCEPT !.keys = @ \cup {"user_query"}, !.user_query = q]

\* analysis["user_query"] = user_query (process_query, line 65)
with_user_query(a, q) ==
    [a EXCEPT !.keys = @ \cup {"user_query"}, !.user_query = q]

\* _analyze_query_intent without its except clause
analyze_query_intent_no_except(q, gemini) ==
    IF gemini.raises THEN [raised |-> TRUE, value |-> NoAnalysis]
    ELSE json_loads(ExtractJson(Strip(gemini.text)))

\* _analyze_query_intent: [raised, value]
analyze_query_intent(q, gemini) ==
    IF gemini.raises
      THEN [raised |-> FALSE, value |-> fallback_query_analysis(q)]
    ELSE LET parsed == json_loads(ExtractJson(Strip(gemini.text)))
         IN  IF parsed.raised
               THEN [raised |-> FALSE, value |-> fallback_query_analysis(q)]
               ELSE [raised |-> FALSE, value |-> parsed.value]

(***************************************************************************)
(* Records of the two stores.                                              *)
(***************************************************************************)
Virat_Kohli == <<"V","i","r","a","t"," ","K","o","h","l","i">>
MS_Dhoni == <<"M","S"," ","D","h","o","n","i">>
Rohit_Sharma == <<"R","o","h","i","t"," ","S","h","a","r","m","a">>
Deepika_Padukone == <<"D","e","e","p","i","k","a"," ","P","a","d","u","k","o","n","e">>
Shah_Rukh_Khan == <<"S","h","a","h"," ","R","u","k","h"," ","K","h","a","n">>

\* the value of dict.get(key) for a key the document does not have
Absent == "None"

Profile(client_id, name, portfolio_value, risk_appetite, location) ==
    [client_id |-> client_id, name |-> name,
     portfolio_value |-> portfolio_value, risk_appetite |-> risk_appetite,
     location |-> location]

Transaction(client_id, portfolio_value, relationship_manager, investment_type) ==
    [client_id |-> client_id, portfolio_value |-> portfolio_value,
     relationship_manager |-> relationship_manager,
     investment_type |-> investment_type]

get_sample_mongodb_data ==
    << Profile("C001", Virat_Kohli, 50000000, "moderate", "Mumbai"),
       Profile("C002", MS_Dhoni, 75000000, "conservative", "Ranchi"),
       Profile("C003", Rohit_Sharma, 45000000, "aggressive", "Mumbai"),
       Profile("C004", Deepika_Padukone, 60000000, "moderate", "Mumbai"),
       Profile("C005", Shah_Rukh_Khan, 100000000, "conservative", "Mumbai") >>

get_sample_mysql_data ==
    << Transaction("C001", 25000000, "Amit Kumar", "Equity"),
       Transaction("C001", 15000000, "Amit Kumar", "Bonds"),
       Transaction("C001", 10000000, "Amit Kumar", "Mutual Funds"),
       Transaction("C002", 40000000, "Priya Singh", "Mutual Funds"),
       Transaction("C002", 20000000, "Priya Singh", "Fixed Deposits"),
       Transaction("C002", 15000000, "Priya Singh", "Real Estate"),
       Transaction("C003", 30000000, "Rajesh Mehta", "Bonds"),
       Transaction("C003", 15000000, "Rajesh Mehta", "Equity"),
       Transaction("C004", 35000000, "Neha Gupta", "Real Estate"),
       Transaction("C004", 25000000, "Neha Gupta", "Mutual Funds"),
       Transaction("C005", 50000000, "Amit Kumar", "Mixed Portfolio"),
       Transaction("C005", 30000000, "Amit Kumar", "International Funds"),
       Transaction("C005", 20000000, "Amit Kumar", "Equity") >>

\* MySQL._get_sample_transaction_data
get_sample_transaction_data ==
    << Transaction("C001", 50000000, "Amit Kumar", "Equity"),
       Transaction("C002", 75000000, "Priya Singh", "Mutual Funds"),
       Transaction("C003", 45000000, "Rajesh Mehta", "Bonds"),
       Transaction("C004", 60000000, "Neha Gupta", "Real Estate"),
       Transaction("C005", 100000000, "Amit Kumar", "Mixed Portfolio"),
       Transaction("C001", 25000000, "Amit Kumar", "Bonds"),
       Transaction("C002", 30000000, "Priya Singh", "Fixed Deposits"),
       Transaction("C003", 20000000, "Rajesh Mehta", "Equity"),
       Transaction("C004", 35000000, "Neha Gupta", "Mutual Funds"),
       Transaction("C005", 50000000, "Amit Kumar", "International Funds") >>

\* Documents a live client_profiles collection may hold, in natural order.
\* The documents db/mongodb.py seeds have address.city and no top-level
\* location; documents written by other tools may have one.  The collection
\* has no schema: the second document has no client_id.
LiveProfiles ==
    << Profile("C001", Virat_Kohli, 50000000, "moderate", "Mumbai"),
       Profile(Absent, Deepika_Padukone, 60000000, "moderate", "Mumbai"),
       Profile("C005", Shah_Rukh_Khan, 100000000, "conservative", "Mumbai"),
       Profile("C002", MS_Dhoni, 75000000, "conservative", Absent),
       Profile("C003", Rohit_Sharma, 45000000, "aggressive", "Ranchi") >>

\* A collection larger than every limit() of the profile read: documents of
\* Mumbai with pairwise different portfolio values, not in value order; names
\* repeat, and some are written in lower case.
LargeIds ==
    << "C001", "C002", "C003", "C004", "C005", "C006", "C007", "C008",
       "C009", "C010", "C011", "C012", "C013", "C014", "C015", "C016",
       "C017", "C018", "C019", "C020", "C021", "C022", "C023", "C024" >>

LargeNames ==
    << Virat_Kohli, MS_Dhoni, Rohit_Sharma, Deepika_Padukone, Shah_Rukh_Khan,
       <<"v","i","r","a","t"," ","k","o","h","l","i">> >>

LargeProfiles ==
    [i \in 1..LargeCollectionSize |->
       Profile(LargeIds[i], LargeNames[(i % 6) + 1],
               1000000 * (((i * 8) % 29) + 1), "moderate", "Mumbai")]

\* Rows a live investments table may hold, in insertion order.  client_id is
\* not a foreign key: C009 has no profile.
LiveRows ==
    << Transaction("C001", 25000000, "Amit Kumar", "Bonds"),
       Transaction("C009", 40000000, "Priya Singh", "Mutual Funds"),
       Transaction("C005", 50000000, "Amit Kumar", "Mixed Portfolio"),
       Transaction("C002", 30000000, "Priya Singh", "Fixed Deposits") >>

Prefix(s, n) == Take(s, n)

MongoSnapshots ==
    {Prefix(LiveProfiles, n) : n \in 0..MaxLiveProfiles} \cup {LargeProfiles}
MysqlSnapshots == {Prefix(LiveRows, n) : n \in 0..MaxLiveRows}

PortfolioValues(s) == [i \in 1..Len(s) |-> s[i].portfolio_value]

(***************************************************************************)
(* The filter derived from the query text.                                 *)
(***************************************************************************)
mumbai == <<"m","u","m","b","a","i">>
ranchi == <<"r","a","n","c","h","i">>
conservative == <<"c","o","n","s","e","r","v","a","t","i","v","e">>
moderate == <<"m","o","d","e","r","a","t","e">>
aggressive == <<"a","g","g","r","e","s","s","i","v","e">>
ViratWords == << <<"v","i","r","a","t">>, <<"k","o","h","l","i">> >>
DhoniWords == << <<"d","h","o","n","i">>, <<"m","s">> >>
RohitWords == << <<"r","o","h","i","t">>, <<"s","h","a","r","m","a">> >>
DeepikaWords == << <<"d","e","e","p","i","k","a">>, <<"p","a","d","u","k","o","n","e">> >>
ShahRukhWords == << <<"s","h","a","h"," ","r","u","k","h">>, <<"k","h","a","n">> >>
Virat == <<"V","i","r","a","t">>
Dhoni == <<"D","h","o","n","i">>
Rohit == <<"R","o","h","i","t">>
Deepika == <<"D","e","e","p","i","k","a">>
Shah_Rukh == <<"S","h","a","h"," ","R","u","k","h">>

\* dict.get(key, default) on the descriptor
GetQueryType(a) == IF "query_type" \in a.keys THEN a.query_type ELSE <<>>
GetUserQuery(a) == IF "user_query" \in a.keys THEN a.user_query ELSE <<>>
GetVisualizationType(a) ==
    IF "visualization_type" \in a.keys THEN a.visualization_type ELSE "bar_chart"

\* filter_criteria of _fetch_mongodb_data: "" and <<>> stand for a key that
\* is not in the dict; name is the $regex pattern
filter_criteria(uq) ==
    [location |-> IF Contains(mumbai, uq) THEN "Mumbai"
                  ELSE IF Contains(ranchi, uq) THEN "Ranchi" ELSE "",
     risk_appetite |-> IF Contains(conservative, uq) THEN "conservative"
                       ELSE IF Contains(moderate, uq) THEN "moderate"
                       ELSE IF Contains(aggressive, uq) THEN "aggressive"
                       ELSE "",
     name |-> IF AnyIn(ViratWords, uq) THEN Virat
              ELSE IF AnyIn(DhoniWords, uq) THEN Dhoni
              ELSE IF AnyIn(RohitWords, uq) THEN Rohit
              ELSE IF AnyIn(DeepikaWords, uq) THEN Deepika
              ELSE IF AnyIn(ShahRukhWords, uq) THEN Shah_Rukh
              ELSE <<>>]

EmptyCriteria == [location |-> "", risk_appetite |-> "", name |-> <<>>]

\* collection.find(criteria): equality on location and risk_appetite, a
\* case-insensitive $regex on name
MongoMatches(criteria, doc) ==
    /\ criteria.location # "" => doc.location = criteria.location
    /\ criteria.risk_appetite # "" => doc.risk_appetite = criteria.risk_appetite
    /\ criteria.name # <<>> => Contains(Lower(criteria.name), Lower(doc.name))

MongoFind(docs, criteria) == SelectSeq(docs, LAMBDA d : MongoMatches(criteria, d))

\* cursor.sort("portfolio_value", -1)
MongoSortDesc(docs) == StableSortDesc(docs, PortfolioValues(docs))

\* the include_client flag of _get_filtered_sample_mongodb_data
SampleIncludeClient(uq, client) ==
    LET location_ok ==
            IF Contains(mumbai, uq) /\ client.location # "Mumbai" THEN FALSE
            ELSE IF Contains(ranchi, uq) /\ client.location # "Ranchi" THEN FALSE
            ELSE TRUE
        risk_ok ==
            IF Contains(conservative, uq) /\ client.risk_appetite # "conservative"
              THEN FALSE
            ELSE IF Contains(moderate, uq) /\ client.risk_appetite # "moderate"
              THEN FALSE
            ELSE IF Contains(aggressive, uq) /\ client.risk_appetite # "aggressive"
              THEN FALSE
            ELSE TRUE
        name_ok ==
            IF AnyIn(ViratWords, uq) /\ ~Contains(Virat, client.name) THEN FALSE
            ELSE IF AnyIn(DhoniWords, uq) /\ ~Contains(Dhoni, client.name) THEN FALSE
            ELSE IF AnyIn(RohitWords, uq) /\ ~Contains(Rohit, client.name) THEN FALSE
            ELSE IF AnyIn(DeepikaWords, uq) /\ ~Contains(Deepika, client.name)
              THEN FALSE
            ELSE IF AnyIn(ShahRukhWords, uq) /\ ~Contains(Shah_Rukh, client.name)
              THEN FALSE
            ELSE TRUE
    IN  location_ok /\ risk_ok /\ name_ok

get_filtered_sample_mongodb_data(a) ==
    LET uq == Lower(GetUserQuery(a))
        all_data == get_sample_mongodb_data
        filtered_data == SelectSeq(all_data, LAMBDA c : SampleIncludeClient(uq, c))
    IN  IF filtered_data # <<>> THEN filtered_data ELSE all_data

\* _fetch_mongodb_data if the unfiltered sorted read had limit(20)
fetch_mongodb_data_limit_20(a, docs, store_raises) ==
    IF store_raises THEN get_filtered_sample_mongodb_data(a)
    ELSE LET query_type == GetQueryType(a)
             criteria == filter_criteria(Lower(GetUserQuery(a)))
         IN  IF criteria # EmptyCriteria
               THEN Take(MongoSortDesc(MongoFind(docs, criteria)), 20)
             ELSE IF Contains(<<"t","o","p">>, query_type)
                     \/ Contains(<<"p","o","r","t","f","o","l","i","o">>, query_type)
               THEN Take(MongoSortDesc(docs), 20)
             ELSE Take(docs, 20)

\* _fetch_mongodb_data; store_raises: get_collection or the read raised
fetch_mongodb_data(a, docs, store_raises) ==
    IF store_raises THEN get_filtered_sample_mongodb_data(a)
    ELSE LET query_type == GetQueryType(a)
             criteria == filter_criteria(Lower(GetUserQuery(a)))
         IN  IF criteria # EmptyCriteria
               THEN Take(MongoSortDesc(MongoFind(docs, criteria)), 20)
             ELSE IF Contains(<<"t","o","p">>, query_type)
                     \/ Contains(<<"p","o","r","t","f","o","l","i","o">>, query_type)
               THEN Take(MongoSortDesc(docs), 10)
             ELSE Take(docs, 20)

\* MySQL.execute_query for the SELECT of _fetch_mysql_data
\* (ORDER BY portfolio_value DESC LIMIT 20): [raised, value]
execute_query(pool, rows, query_fails) ==
    IF ~pool THEN [raised |-> FALSE, value |-> get_sample_transaction_data]
    ELSE IF query_fails
      THEN [raised |-> FALSE, value |-> get_sample_transaction_data]
    ELSE [raised |-> FALSE,
          value |-> Take(StableSortDesc(rows, PortfolioValues(rows)), 20)]

fetch_mysql_data(pool, rows, query_fails) ==
    LET r == execute_query(pool, rows, query_fails)
    IN  IF r.raised THEN get_sample_mysql_data ELSE r.value

(***************************************************************************)
(* raw_data: the dict _fetch_relevant_data returns.                        *)
(***************************************************************************)
EmptyData == [keys |-> {}, client_profiles |-> <<>>, transactions |-> <<>>,
              error |-> ""]

RECURSIVE SumSeq(_)
SumSeq(ns) == IF ns = <<>> THEN 0 ELSE Head(ns) + SumSeq(Tail(ns))

\* the keys of a dict filled while iterating: first occurrences, in order
RECURSIVE FirstOccurrences(_)
FirstOccurrences(ks) ==
    IF ks = <<>> THEN <<>>
    ELSE LET front == FirstOccurrences(SubSeq(ks, 1, Len(ks) - 1))
             last == ks[Len(ks)]
         IN  IF \E i \in 1..Len(front) : front[i] = last THEN front
             ELSE Append(front, last)

ClientIds(s) == [i \in 1..Len(s) |-> s[i].client_id]

GetDataSources(a) == IF "data_sources" \in a.keys THEN a.data_sources ELSE <<>>

\* "mongodb" in analysis.get("data_sources", []) raises TypeError on None
DataSourcesRaises(a) ==
    "data_sources" \in a.keys /\ a.data_sources_kind = "null"

InSources(name, a) ==
    \E i \in 1..Len(GetDataSources(a)) : GetDataSources(a)[i] = name

(***************************************************************************)
(* Text summary.                                                           *)
(***************************************************************************)
NoText == [source |-> "none", template |-> "", total_clients |-> 0,
           total_transactions |-> 0, total_value |-> 0, user_query |-> <<>>]

LiteralText(s) == [NoText EXCEPT !.source = "literal", !.template = s]

\* _generate_fallback_summary if the test for profiles came first
generate_fallback_summary_profiles_first(q, raw) ==
    IF "client_profiles" \in raw.keys
      THEN [source |-> "fallback", template |-> "client_profiles",
            total_clients |-> Len(raw.client_profiles),
            total_transactions |-> 0,
            total_value |-> SumSeq(PortfolioValues(raw.client_profiles)),
            user_query |-> q]
    ELSE IF "transactions" \in raw.keys
      THEN [source |-> "fallback", template |-> "transactions",
            total_clients |-> 0,
            total_transactions |-> Len(raw.transactions),
            total_value |-> SumSeq(PortfolioValues(raw.transactions)),
            user_query |-> q]
    ELSE [source |-> "fallback", template |-> "no_data", total_clients |-> 0,
          total_transactions |-> 0, total_value |-> 0, user_query |-> q]

generate_fallback_summary(q, raw) ==
    IF "client_profiles" \in raw.keys /\ "transactions" \in raw.keys
      THEN [source |-> "fallback", template |-> "both",
            total_clients |-> Len(raw.client_profiles),
            total_transactions |-> Len(raw.transactions),
            total_value |-> SumSeq(PortfolioValues(raw.client_profiles)),
            user_query |-> q]
    ELSE IF "client_profiles" \in raw.keys
      THEN [source |-> "fallback", template |-> "client_profiles",
            total_clients |-> Len(raw.client_profiles),
            total_transactions |-> 0,
            total_value |-> SumSeq(PortfolioValues(raw.client_profiles)),
            user_query |-> q]
    ELSE IF "transactions" \in raw.keys
      THEN [source |-> "fallback", template |-> "transactions",
            total_clients |-> 0,
            total_transactions |-> Len(raw.transactions),
            total_value |-> SumSeq(PortfolioValues(raw.transactions)),
            user_query |-> q]
    ELSE [source |-> "fallback", template |-> "no_data", total_clients |-> 0,
          total_transactions |-> 0, total_value |-> 0, user_query |-> q]

\* _generate_text_summary without its except clause
generate_text_summary_no_fallback(q, raw, gemini_raises) ==
    IF gemini_raises
      THEN [raised |-> TRUE, value |-> NoText]
      ELSE [raised |-> FALSE,
            value |-> [NoText EXCEPT !.source = "gemini", !.user_query = q]]

\* _generate_text_summary: [raised, value]
generate_text_summary(q, raw, gemini_raises) ==
    IF gemini_raises
      THEN [raised |-> FALSE, value |-> generate_fallback_summary(q, raw)]
      ELSE [raised |-> FALSE,
            value |-> [NoText EXCEPT !.source = "gemini", !.user_query = q]]

(***************************************************************************)
(* Currency strings of the table.                                          *)
(***************************************************************************)
RupeeSign == "Rs"

DigitChar(d) == <<"0","1","2","3","4","5","6","7","8","9">>[d + 1]

RECURSIVE Digits(_)
Digits(n) ==
    IF n < 10 THEN <<DigitChar(n)>>
    ELSE Append(Digits(n \div 10), DigitChar(n % 10))

RECURSIVE Grouped(_)
Grouped(ds) ==
    IF Len(ds) <= 3 THEN ds
    ELSE Grouped(SubSeq(ds, 1, Len(ds) - 3)) \o <<",">>
           \o SubSeq(ds, Len(ds) - 2, Len(ds))

\* f"<rupee sign>{n:,}"
FormatCurrency(n) == <<RupeeSign>> \o Grouped(Digits(n))

DigitValue(c) == CHOOSE d \in 0..9 : DigitChar(d) = c

RECURSIVE ParseDigits(_)
ParseDigits(cs) ==
    IF cs = <<>> THEN 0
    ELSE 10 * ParseDigits(SubSeq(cs, 1, Len(cs) - 1)) + DigitValue(cs[Len(cs)])

\* float(s.replace(rupee sign, "").replace(",", ""))
ParseCurrency(s) ==
    ParseDigits(SelectSeq(s, LAMBDA c : c # RupeeSign /\ c # ","))

(***************************************************************************)
(* Table data.  A row is a dict: keys lists its columns in order, and the  *)
(* fields hold the values of the columns it has.                           *)
(***************************************************************************)
Unknown == <<"U","n","k","n","o","w","n">>

JoinedColumns ==
    <<"Client ID", "Client Name", "Total Portfolio Value",
      "Relationship Manager", "Investment Types", "Risk Appetite", "Location">>
ProfileColumns ==
    <<"Client ID", "Client Name", "Portfolio Value", "Risk Appetite",
      "Location", "Age", "Income Level">>
TransactionColumns ==
    <<"Client ID", "Total Portfolio Value", "Relationship Manager",
      "Investment Types">>

HasColumn(row, col) == \E i \in 1..Len(row.keys) : row.keys[i] = col

\* client_portfolios[client_id] if line 556 assigned instead of adding
ClientPortfolio_assign(transactions, client_id) ==
    LET own == SelectSeq(transactions, LAMBDA t : t.client_id = client_id)
    IN  [total_value |-> own[Len(own)].portfolio_value,
         investment_types |-> {own[i].investment_type : i \in 1..Len(own)},
         relationship_managers |->
             {own[i].relationship_manager : i \in 1..Len(own)}]

\* client_portfolios[client_id] after the loop over the transactions
ClientPortfolio(transactions, client_id) ==
    LET own == SelectSeq(transactions, LAMBDA t : t.client_id = client_id)
    IN  [total_value |-> SumSeq(PortfolioValues(own)),
         investment_types |-> {own[i].investment_type : i \in 1..Len(own)},
         relationship_managers |->
             {own[i].relationship_manager : i \in 1..Len(own)}]

\* clients.get(client_id, {}) on {item["client_id"]: item for item in profiles}:
\* the last profile with the identifier, or the empty dict
ClientInfo(profiles, client_id) ==
    LET hits == {i \in 1..Len(profiles) : profiles[i].client_id = client_id}
    IN  IF hits = {} THEN [found |-> FALSE, name |-> Unknown,
                           risk_appetite |-> "N/A", location |-> "N/A"]
        ELSE LET p == profiles[CHOOSE i \in hits : \A j \in hits : j <= i]
             IN  [found |-> TRUE, name |-> p.name,
                  risk_appetite |-> p.risk_appetite,
                  location |-> IF p.location = Absent THEN "N/A" ELSE p.location]

JoinedRow(profiles, transactions, client_id) ==
    LET portfolio_data == ClientPortfolio(transactions, client_id)
        info == ClientInfo(profiles, client_id)
    IN  [keys |-> JoinedColumns, Client_ID |-> client_id,
         Client_Name |-> info.name,
         Total_Portfolio_Value |-> FormatCurrency(portfolio_data.total_value),
         Portfolio_Value |-> <<>>,
         Relationship_Manager |-> portfolio_data.relationship_managers,
         Investment_Types |-> portfolio_data.investment_types,
         Risk_Appetite |-> info.risk_appetite, Location |-> info.location]

ProfileRow(client) ==
    [keys |-> ProfileColumns,
     Client_ID |-> IF client.client_id = Absent THEN "" ELSE client.client_id,
     Client_Name |-> client.name, Total_Portfolio_Value |-> <<>>,
     Portfolio_Value |-> FormatCurrency(client.portfolio_value),
     Relationship_Manager |-> {}, Investment_Types |-> {},
     Risk_Appetite |-> client.risk_appetite,
     Location |-> IF client.location = Absent THEN "" ELSE client.location]

TransactionRow(transactions, client_id) ==
    LET portfolio_data == ClientPortfolio(transactions, client_id)
    IN  [keys |-> TransactionColumns, Client_ID |-> client_id,
         Client_Name |-> <<>>,
         Total_Portfolio_Value |-> FormatCurrency(portfolio_data.total_value),
         Portfolio_Value |-> <<>>,
         Relationship_Manager |-> portfolio_data.relationship_managers,
         Investment_Types |-> portfolio_data.investment_types,
         Risk_Appetite |-> "", Location |-> ""]

\* the rows before the sort if the joined table had one row per transaction
CandidateRows_per_transaction(raw) ==
    LET ids == ClientIds(raw.transactions)
    IN  IF "client_profiles" \in raw.keys /\ "transactions" \in raw.keys
          THEN [i \in 1..Len(ids) |->
                  JoinedRow(raw.client_profiles, raw.transactions, ids[i])]
        ELSE IF "client_profiles" \in raw.keys
          THEN [i \in 1..Len(raw.client_profiles) |->
                  ProfileRow(raw.client_profiles[i])]
        ELSE IF "transactions" \in raw.keys
          THEN [i \in 1..Len(ids) |-> TransactionRow(raw.transactions, ids[i])]
        ELSE <<>>

\* the rows before the sort
CandidateRows(raw) ==
    LET ids == FirstOccurrences(ClientIds(raw.transactions))
    IN  IF "client_profiles" \in raw.keys /\ "transactions" \in raw.keys
          THEN [i \in 1..Len(ids) |->
                  JoinedRow(raw.client_profiles, raw.transactions, ids[i])]
        ELSE IF "client_profiles" \in raw.keys
          THEN [i \in 1..Len(raw.client_profiles) |->
                  ProfileRow(raw.client_profiles[i])]
        ELSE IF "transactions" \in raw.keys
          THEN [i \in 1..Len(ids) |-> TransactionRow(raw.transactions, ids[i])]
        ELSE <<>>

\* key=lambda x: float(x.get("Total Portfolio Value", "0")...)
SortKey(row) ==
    IF HasColumn(row, "Total Portfolio Value")
      THEN ParseCurrency(row.Total_Portfolio_Value)
      ELSE ParseCurrency(<<"0">>)

\* row.get("Client Name") != "Unknown"
NotUnknown(row) == ~(HasColumn(row, "Client Name") /\ row.Client_Name = Unknown)

NoTable == [present |-> FALSE, columns |-> <<>>, rows |-> <<>>]

\* item["client_id"] (line 542) raises KeyError on a profile without the key
KeyErrorClientId(profiles) ==
    \E i \in 1..Len(profiles) : profiles[i].client_id = Absent

format_table_data(raw) ==
    LET candidates == CandidateRows(raw)
        sorted == StableSortDesc(candidates,
                    [i \in 1..Len(candidates) |-> SortKey(candidates[i])])
        table_rows == SelectSeq(sorted, NotUnknown)
    IN  IF /\ "client_profiles" \in raw.keys /\ "transactions" \in raw.keys
           /\ KeyErrorClientId(raw.client_profiles)
          THEN \* except Exception: return {"columns": [], "rows": []}
               [present |-> TRUE, columns |-> <<>>, rows |-> <<>>]
          ELSE [present |-> TRUE,
                columns |-> IF table_rows # <<>> THEN table_rows[1].keys
                            ELSE <<>>,
                rows |-> Take(table_rows, 20)]

(***************************************************************************)
(* The text of the joined cells.  ", ".join(s) lists the items of a set of *)
(* str in its iteration order, which follows the hashes of the items: the  *)
(* interpreter draws the hash seed when the process starts, so the order   *)
(* is one the process does not choose.  Two orders are modelled.           *)
(***************************************************************************)
HashSeeds == {0, 1}

\* the items in the order of iteration under hash seed 0
HashOrder ==
    << "Equity", "Bonds", "Mutual Funds", "Fixed Deposits", "Real Estate",
       "Mixed Portfolio", "International Funds", "Amit Kumar", "Priya Singh",
       "Rajesh Mehta", "Neha Gupta" >>

Reverse(s) == [i \in 1..Len(s) |-> s[Len(s) + 1 - i]]

\* ", ".join(items) under a hash seed: the items in iteration order
JoinSet(items, seed) ==
    LET listed == SelectSeq(HashOrder, LAMBDA x : x \in items)
    IN  IF seed = 0 THEN listed ELSE Reverse(listed)

\* a row with its two joined cells as text
JoinedCells(row, seed) ==
    [row EXCEPT !.Relationship_Manager = JoinSet(@, seed),
                !.Investment_Types = JoinSet(@, seed)]

\* _format_table_data with the joined cells as text
format_table_data_joined(raw, seed) ==
    LET table == format_table_data(raw)
    IN  [table EXCEPT !.rows = [i \in 1..Len(table.rows) |->
                                  JoinedCells(table.rows[i], seed)]]

(***************************************************************************)
(* Chart data.                                                             *)
(***************************************************************************)
\* the include_client flag of _get_filtered_data_for_charts
ChartIncludeClient(uq, client) ==
    LET location_ok ==
            IF Contains(mumbai, uq) /\ client.location # "Mumbai" THEN FALSE
            ELSE IF Contains(ranchi, uq) /\ client.location # "Ranchi" THEN FALSE
            ELSE TRUE
        risk_ok ==
            IF Contains(conservative, uq) /\ client.risk_appetite # "conservative"
              THEN FALSE
            ELSE IF Contains(moderate, uq) /\ client.risk_appetite # "moderate"
              THEN FALSE
            ELSE IF Contains(aggressive, uq) /\ client.risk_appetite # "aggressive"
              THEN FALSE
            ELSE TRUE
        name_ok ==
            IF AnyIn(ViratWords, uq) /\ ~Contains(Virat, client.name) THEN FALSE
            ELSE IF AnyIn(DhoniWords, uq) /\ ~Contains(Dhoni, client.name) THEN FALSE
            ELSE IF AnyIn(RohitWords, uq) /\ ~Contains(Rohit, client.name) THEN FALSE
            ELSE IF AnyIn(DeepikaWords, uq) /\ ~Contains(Deepika, client.name)
              THEN FALSE
            ELSE IF AnyIn(ShahRukhWords, uq) /\ ~Contains(Shah_Rukh, client.name)
              THEN FALSE
            ELSE TRUE
    IN  location_ok /\ risk_ok /\ name_ok

\* the clients _get_filtered_data_for_charts keeps
FilteredClients(raw, a) ==
    SelectSeq(raw.client_profiles,
              LAMBDA c : ChartIncludeClient(Lower(GetUserQuery(a)), c))

\* client["client_id"] (line 797) raises KeyError on a kept client without
\* the key; the set is built only when both categories are present
filtered_data_raises(raw, a) ==
    /\ a.kind = "dict" /\ "user_query" \in a.keys
    /\ "transactions" \in raw.keys /\ "client_profiles" \in raw.keys
    /\ KeyErrorClientId(FilteredClients(raw, a))

\* _get_filtered_data_for_charts if the loop skipped the first client it
\* keeps
get_filtered_data_for_charts_skip_first(raw, a) ==
    IF a.kind # "dict" \/ "user_query" \notin a.keys THEN raw
    ELSE
      LET uq == Lower(GetUserQuery(a))
          kept ==
              SelectSeq(raw.client_profiles, LAMBDA c : ChartIncludeClient(uq, c))
          filtered_clients == IF kept = <<>> THEN kept ELSE Tail(kept)
          filtered_client_ids ==
              {filtered_clients[i].client_id : i \in 1..Len(filtered_clients)}
          filtered_transactions ==
              SelectSeq(raw.transactions,
                        LAMBDA t : t.client_id \in filtered_client_ids)
      IN  [keys |-> raw.keys \cap {"client_profiles", "transactions"},
           client_profiles |->
               IF "client_profiles" \in raw.keys THEN filtered_clients ELSE <<>>,
           transactions |->
               IF "transactions" \in raw.keys /\ "client_profiles" \in raw.keys
                 THEN filtered_transactions
               ELSE IF "transactions" \in raw.keys THEN raw.transactions
               ELSE <<>>,
           error |-> ""]

\* _get_filtered_data_for_charts if line 795 tested raw_data alone and the
\* identifiers came from the profiles that passed, fetched or not
get_filtered_data_for_charts_always_narrow(raw, a) ==
    IF a.kind # "dict" \/ "user_query" \notin a.keys THEN raw
    ELSE
      LET uq == Lower(GetUserQuery(a))
          filtered_clients ==
              SelectSeq(raw.client_profiles, LAMBDA c : ChartIncludeClient(uq, c))
          filtered_client_ids ==
              {filtered_clients[i].client_id : i \in 1..Len(filtered_clients)}
          filtered_transactions ==
              SelectSeq(raw.transactions,
                        LAMBDA t : t.client_id \in filtered_client_ids)
      IN  [keys |-> raw.keys \cap {"client_profiles", "transactions"},
           client_profiles |->
               IF "client_profiles" \in raw.keys THEN filtered_clients ELSE <<>>,
           transactions |->
               IF "transactions" \in raw.keys THEN filtered_transactions
               ELSE <<>>,
           error |-> ""]

get_filtered_data_for_charts(raw, a) ==
    IF a.kind # "dict" \/ "user_query" \notin a.keys THEN raw
    ELSE
      LET uq == Lower(GetUserQuery(a))
          filtered_clients ==
              SelectSeq(raw.client_profiles, LAMBDA c : ChartIncludeClient(uq, c))
          filtered_client_ids ==
              {filtered_clients[i].client_id : i \in 1..Len(filtered_clients)}
          filtered_transactions ==
              SelectSeq(raw.transactions,
                        LAMBDA t : t.client_id \in filtered_client_ids)
      IN  [keys |-> raw.keys \cap {"client_profiles", "transactions"},
           client_profiles |->
               IF "client_profiles" \in raw.keys THEN filtered_clients ELSE <<>>,
           transactions |->
               IF "transactions" \in raw.keys /\ "client_profiles" \in raw.keys
                 THEN filtered_transactions
               ELSE IF "transactions" \in raw.keys THEN raw.transactions
               ELSE <<>>,
           error |-> ""]

NoChart == [present |-> FALSE, type |-> "", title |-> "", labels |-> <<>>,
            data |-> <<>>]

EmptyChart(type) == [NoChart EXCEPT !.present = TRUE, !.type = type]

\* d[key] = d.get(key, 0) + value over the records: labels and sums
GroupLabels(ks) == FirstOccurrences(ks)

GroupSums(ks, values) ==
    LET labels == GroupLabels(ks)
    IN  [g \in 1..Len(labels) |->
           SumSeq([i \in 1..Len(ks) |->
                     IF ks[i] = labels[g] THEN values[i] ELSE 0])]

\* d[key] = value over the records: the last value of each key
GroupLast(ks, values) ==
    LET labels == GroupLabels(ks)
    IN  [g \in 1..Len(labels) |->
           values[CHOOSE i \in 1..Len(ks) :
                    /\ ks[i] = labels[g]
                    /\ \A j \in 1..Len(ks) : ks[j] = labels[g] => j <= i]]

create_bar_chart_data(raw, a) ==
    LET filtered_data == get_filtered_data_for_charts(raw, a)
        managers == [i \in 1..Len(filtered_data.transactions) |->
                       filtered_data.transactions[i].relationship_manager]
        names == [i \in 1..Len(filtered_data.client_profiles) |->
                    filtered_data.client_profiles[i].name]
    IN  IF filtered_data_raises(raw, a)
          THEN EmptyChart("bar")   \* except Exception (lines 696-698)
        ELSE IF "transactions" \in filtered_data.keys /\ managers # <<>>
          THEN [present |-> TRUE, type |-> "bar",
                title |-> "Portfolio Values by Relationship Manager",
                labels |-> GroupLabels(managers),
                data |-> GroupSums(managers,
                                   PortfolioValues(filtered_data.transactions))]
        ELSE IF "client_profiles" \in filtered_data.keys /\ names # <<>>
          THEN [present |-> TRUE, type |-> "bar",
                title |-> "Client Portfolio Values",
                labels |-> GroupLabels(names),
                data |-> GroupLast(names,
                                   PortfolioValues(filtered_data.client_profiles))]
        ELSE EmptyChart("bar")

\* _create_pie_chart_data if the transactions were grouped by manager
create_pie_chart_data_by_manager(raw, a) ==
    LET filtered_data == get_filtered_data_for_charts(raw, a)
        managers == [i \in 1..Len(filtered_data.transactions) |->
                       filtered_data.transactions[i].relationship_manager]
        risks == [i \in 1..Len(filtered_data.client_profiles) |->
                    filtered_data.client_profiles[i].risk_appetite]
    IN  IF filtered_data_raises(raw, a)
          THEN EmptyChart("pie")
        ELSE IF "transactions" \in filtered_data.keys /\ managers # <<>>
          THEN [present |-> TRUE, type |-> "pie",
                title |-> "Portfolio Breakdown by Investment Type",
                labels |-> GroupLabels(managers),
                data |-> GroupSums(managers,
                                   PortfolioValues(filtered_data.transactions))]
        ELSE IF "client_profiles" \in filtered_data.keys /\ risks # <<>>
          THEN [present |-> TRUE, type |-> "pie",
                title |-> "Portfolio Breakdown by Risk Appetite",
                labels |-> GroupLabels(risks),
                data |-> GroupSums(risks,
                                   PortfolioValues(filtered_data.client_profiles))]
        ELSE EmptyChart("pie")

create_pie_chart_data(raw, a) ==
    LET filtered_data == get_filtered_data_for_charts(raw, a)
        inv_types == [i \in 1..Len(filtered_data.transactions) |->
                        filtered_data.transactions[i].investment_type]
        risks == [i \in 1..Len(filtered_data.client_profiles) |->
                    filtered_data.client_profiles[i].risk_appetite]
    IN  IF filtered_data_raises(raw, a)
          THEN EmptyChart("pie")   \* except Exception (lines 746-748)
        ELSE IF "transactions" \in filtered_data.keys /\ inv_types # <<>>
          THEN [present |-> TRUE, type |-> "pie",
                title |-> "Portfolio Breakdown by Investment Type",
                labels |-> GroupLabels(inv_types),
                data |-> GroupSums(inv_types,
                                   PortfolioValues(filtered_data.transactions))]
        ELSE IF "client_profiles" \in filtered_data.keys /\ risks # <<>>
          THEN [present |-> TRUE, type |-> "pie",
                title |-> "Portfolio Breakdown by Risk Appetite",
                labels |-> GroupLabels(risks),
                data |-> GroupSums(risks,
                                   PortfolioValues(filtered_data.client_profiles))]
        ELSE EmptyChart("pie")

create_line_chart_data ==
    [present |-> TRUE, type |-> "line",
     title |-> "Portfolio Performance Over Time",
     labels |-> <<"Jan", "Feb", "Mar", "Apr", "May">>,
     data |-> <<10000000, 12000000, 11500000, 13000000, 14500000>>]

\* _generate_chart_data if the else branch built a pie chart
generate_chart_data_else_pie(raw, a) ==
    LET viz_type == GetVisualizationType(a)
    IN  IF viz_type = "pie_chart" THEN create_pie_chart_data(raw, a)
        ELSE IF viz_type = "line_chart" THEN create_line_chart_data
        ELSE create_pie_chart_data(raw, a)

generate_chart_data(raw, a) ==
    LET viz_type == GetVisualizationType(a)
    IN  IF viz_type = "pie_chart" THEN create_pie_chart_data(raw, a)
        ELSE IF viz_type = "line_chart" THEN create_line_chart_data
        ELSE create_bar_chart_data(raw, a)

(***************************************************************************)
(* Results of process_query and responses of the route.                    *)
(***************************************************************************)
NoResult == [kind |-> "none", error |-> FALSE, message |-> "",
             text_response |-> NoText, table_data |-> NoTable,
             chart_data |-> NoChart]

ErrorResult(text, message) ==
    [kind |-> "dict", error |-> TRUE, message |-> message,
     text_response |-> LiteralText(text), table_data |-> NoTable,
     chart_data |-> NoChart]

Raised(message) == [NoResult EXCEPT !.kind = "raised", !.message = message]

\* process_query without its except clause
process_query_reraise(e) == Raised(e)

\* the except clause of process_query
process_query_except(e) == ErrorResult("Error processing query", e)

\* the except clause of _format_response
format_response_except(e) == ErrorResult("Error formatting response", e)

\* process_query, lines 72-79
fetch_error_result(raw) == ErrorResult("Error fetching data", raw.error)

\* the dict _format_response returns
format_response(text, table, chart) ==
    [kind |-> "dict", error |-> FALSE, message |-> "",
     text_response |-> text, table_data |-> table, chart_data |-> chart]

Apology == "I'm sorry, I couldn't process your query at this time."

NoResponse == [kind |-> "none", status_code |-> 0, success |-> FALSE,
               text_response |-> NoText, table_data |-> NoTable,
               chart_data |-> NoChart, error_message |-> ""]

HTTPException(status_code) ==
    [NoResponse EXCEPT !.kind = "HTTPException", !.status_code = status_code]

\* the route after the call of process_query
route_response(r) ==
    IF r.kind = "raised" THEN HTTPException(500)
    ELSE IF r.error
      THEN [NoResponse EXCEPT !.kind = "QueryResponse", !.status_code = 200,
                              !.success = FALSE,
                              !.text_response = LiteralText(Apology),
                              !.error_message = r.message]
    ELSE [NoResponse EXCEPT !.kind = "QueryResponse", !.status_code = 200,
                            !.success = TRUE,
                            !.text_response = r.text_response,
                            !.table_data = r.table_data,
                            !.chart_data = r.chart_data]

\* the validation if it measured the text as received: len(request.query) < 3
QueryRejected_untrimmed(q) == q = <<>> \/ Len(q) < 3

\* not request.query or len(request.query.strip()) < 3
QueryRejected(q) == q = <<>> \/ Len(Strip(q)) < 3

\* the generative service before it has been called
NoCall == [raises |-> FALSE, text |-> <<>>]

\* no call issued yet
NoCalls == [classification |-> 0, summarization |-> 0, mongodb |-> 0,
            mysql |-> 0]

\* the calls issued if the except branch of _analyze_query_intent asked the
\* service once more before falling back
calls_after_classification_retry(c, g) ==
    [c EXCEPT !.classification = @ + (IF g.raises THEN 2 ELSE 1)]

\* _analyze_query_intent issues generate_content once (line 123); its except
\* branch goes to the keyword fallback
calls_after_classification(c, g) ==
    [c EXCEPT !.classification = @ + 1]


(***************************************************************************)
(* The state machine: one request through the route and process_query.     *)
(***************************************************************************)
Init ==
    /\ pc = "idle"
    /\ mongo_docs \in MongoSnapshots
    /\ mysql_pool \in BOOLEAN
    /\ mysql_rows \in MysqlSnapshots
    /\ user_query = <<>>
    /\ gemini_analysis = NoCall
    /\ mongo_read = "none"
    /\ mysql_read = "none"
    /\ gemini_summary = "none"
    /\ analysis = NoAnalysis
    /\ raw_data = EmptyData
    /\ text_response = NoText
    /\ table_data = NoTable
    /\ chart_data = NoChart
    /\ result = NoResult
    /\ response = NoResponse
    /\ requests = <<>>
    /\ calls = NoCalls

\* route, lines 45-57: the request arrives and is validated
Receive ==
    /\ pc = "idle"
    /\ \E q \in Queries :
         /\ user_query' = q
         /\ IF QueryRejected(q)
              THEN /\ response' = HTTPException(400)
                   /\ pc' = "rejected"
              ELSE /\ response' = response
                   /\ pc' = "analyze"
    /\ UNCHANGED <<mongo_docs, mysql_pool, mysql_rows, gemini_analysis,
                   mongo_read, mysql_read, gemini_summary, analysis, raw_data,
                   text_response, table_data, chart_data, result>>
    /\ UNCHANGED <<requests, calls>>

\* process_query, lines 64-65
AnalyzeQueryIntent ==
    /\ pc = "analyze"
    /\ \E g \in GeminiAnalysisOutcomes :
         LET r == analyze_query_intent(user_query, g)
         IN  /\ gemini_analysis' = g
             /\ calls' = calls_after_classification(calls, g)
             /\ IF r.raised
                  THEN /\ analysis' = analysis
                       /\ result' = process_query_except("classification error")
                       /\ pc' = "returned"
                ELSE IF r.value.kind # "dict"
                  THEN /\ analysis' = r.value
                       /\ result' = process_query_except("TypeError")
                       /\ pc' = "returned"
                ELSE /\ analysis' = with_user_query(r.value, user_query)
                     /\ result' = result
                     /\ pc' = "fetch_mongodb"
    /\ UNCHANGED <<mongo_docs, mysql_pool, mysql_rows, user_query, mongo_read,
                   mysql_read, gemini_summary, raw_data, text_response,
                   table_data, chart_data, response>>
    /\ UNCHANGED requests

\* _fetch_relevant_data, lines 180-184 (and 193-195, 72-79 when it fails)
FetchMongoDB ==
    /\ pc = "fetch_mongodb"
    /\ IF DataSourcesRaises(analysis)
         THEN /\ raw_data' = [EmptyData EXCEPT !.keys = {"error"},
                                               !.error = "TypeError"]
              /\ result' = fetch_error_result(raw_data')
              /\ mongo_read' = mongo_read
              /\ pc' = "returned"
       ELSE IF InSources("mongodb", analysis)
         THEN \E store_raises \in BOOLEAN :
                /\ mongo_read' = IF store_raises THEN "raised" ELSE "ok"
                /\ raw_data' =
                     [raw_data EXCEPT
                        !.keys = @ \cup {"client_profiles"},
                        !.client_profiles =
                            fetch_mongodb_data(analysis, mongo_docs, store_raises)]
                /\ result' = result
                /\ pc' = "fetch_mysql"
       ELSE /\ UNCHANGED <<raw_data, result, mongo_read>>
            /\ pc' = "fetch_mysql"
    /\ UNCHANGED <<mongo_docs, mysql_pool, mysql_rows, user_query,
                   gemini_analysis, mysql_read, gemini_summary, analysis,
                   text_response, table_data, chart_data, response>>
    /\ calls' = IF ~DataSourcesRaises(analysis) /\ InSources("mongodb", analysis)
                 THEN [calls EXCEPT !.mongodb = @ + 1]
                 ELSE calls
    /\ UNCHANGED requests

\* _fetch_relevant_data, lines 186-191
FetchMySQL ==
    /\ pc = "fetch_mysql"
    /\ IF InSources("mysql", analysis)
         THEN \E query_fails \in (IF mysql_pool THEN BOOLEAN ELSE {FALSE}) :
                /\ mysql_read' = IF ~mysql_pool THEN "not_connected"
                                 ELSE IF query_fails THEN "query_error"
                                 ELSE "ok"
                /\ raw_data' =
                     [raw_data EXCEPT
                        !.keys = @ \cup {"transactions"},
                        !.transactions =
                            fetch_mysql_data(mysql_pool, mysql_rows, query_fails)]
         ELSE UNCHANGED <<raw_data, mysql_read>>
    /\ pc' = "summary"
    /\ UNCHANGED <<mongo_docs, mysql_pool, mysql_rows, user_query,
                   gemini_analysis, mongo_read, gemini_summary, analysis,
                   text_response, table_data, chart_data, result, response>>
    /\ calls' = IF InSources("mysql", analysis) /\ mysql_pool
                 THEN [calls EXCEPT !.mysql = @ + 1]
                 ELSE calls
    /\ UNCHANGED requests

\* _format_response if the summary were asked for while the transaction read
\* is still to be done
GenerateTextSummary_before_fetch ==
    /\ pc = "fetch_mysql"
    /\ \E gemini_raises \in BOOLEAN :
         LET r == generate_text_summary(user_query, raw_data, gemini_raises)
         IN  /\ gemini_summary' = IF gemini_raises THEN "raised" ELSE "ok"
             /\ text_response' = r.value
             /\ result' = result
             /\ pc' = "table"
    /\ UNCHANGED <<mongo_docs, mysql_pool, mysql_rows, user_query,
                   gemini_analysis, mongo_read, mysql_read, analysis, raw_data,
                   table_data, chart_data, response>>
    /\ calls' = [calls EXCEPT !.summarization = @ + 1]
    /\ UNCHANGED requests

\* _format_response, line 357
GenerateTextSummary ==
    /\ pc = "summary"
    /\ \E gemini_raises \in BOOLEAN :
         LET r == generate_text_summary(user_query, raw_data, gemini_raises)
         IN  /\ gemini_summary' = IF gemini_raises THEN "raised" ELSE "ok"
             /\ IF r.raised
                  THEN /\ text_response' = text_response
                       /\ result' = format_response_except("summary error")
                       /\ pc' = "returned"
                  ELSE /\ text_response' = r.value
                       /\ result' = result
                       /\ pc' = "table"
    /\ UNCHANGED <<mongo_docs, mysql_pool, mysql_rows, user_query,
                   gemini_analysis, mongo_read, mysql_read, analysis, raw_data,
                   table_data, chart_data, response>>
    /\ calls' = [calls EXCEPT !.summarization = @ + 1]
    /\ UNCHANGED requests

\* _format_response, line 360
FormatTableData ==
    /\ pc = "table"
    /\ table_data' = format_table_data(raw_data)
    /\ pc' = "chart"
    /\ UNCHANGED <<mongo_docs, mysql_pool, mysql_rows, user_query,
                   gemini_analysis, mongo_read, mysql_read, gemini_summary,
                   analysis, raw_data, text_response, chart_data, result,
                   response>>
    /\ UNCHANGED <<requests, calls>>

\* _format_response, lines 363-372, and the return of process_query
GenerateChartData ==
    /\ pc = "chart"
    /\ chart_data' = generate_chart_data(raw_data, analysis)
    /\ result' = format_response(text_response, table_data, chart_data')
    /\ pc' = "returned"
    /\ UNCHANGED <<mongo_docs, mysql_pool, mysql_rows, user_query,
                   gemini_analysis, mongo_read, mysql_read, gemini_summary,
                   analysis, raw_data, text_response, table_data, response>>
    /\ UNCHANGED <<requests, calls>>

\* route, lines 66-91
Respond ==
    /\ pc = "returned"
    /\ response' = route_response(result)
    /\ pc' = "responded"
    /\ UNCHANGED <<mongo_docs, mysql_pool, mysql_rows, user_query,
                   gemini_analysis, mongo_read, mysql_read, gemini_summary,
                   analysis, raw_data, text_response, table_data, chart_data,
                   result>>
    /\ UNCHANGED <<requests, calls>>

Next ==
    \/ Receive
    \/ AnalyzeQueryIntent
    \/ FetchMongoDB
    \/ FetchMySQL
    \/ GenerateTextSummary
    \/ FormatTableData
    \/ GenerateChartData
    \/ Respond

Spec == Init /\ [][Next]_vars

(***************************************************************************)
(* The table builder run again and again on the sample data sets of the    *)
(* processor.                                                              *)
(***************************************************************************)
\* the sample profiles and sample transactions, whole or cut short
SampleInputs ==
    {[keys |-> {"client_profiles", "transactions"},
      client_profiles |-> Take(get_sample_mongodb_data, n),
      transactions |-> Take(get_sample_mysql_data, m), error |-> ""] :
       n \in 0..Len(get_sample_mongodb_data),
       m \in 0..Len(get_sample_mysql_data)}

SampleInit ==
    /\ pc = "table"
    /\ mongo_docs = <<>>
    /\ mysql_pool = FALSE
    /\ mysql_rows = <<>>
    /\ user_query = <<>>
    /\ gemini_analysis = NoCall
    /\ mongo_read = "none"
    /\ mysql_read = "none"
    /\ gemini_summary = "none"
    /\ analysis = NoAnalysis
    /\ raw_data \in SampleInputs
    /\ text_response = NoText
    /\ table_data = NoTable
    /\ chart_data = NoChart
    /\ result = NoResult
    /\ response = NoResponse
    /\ requests = <<>>
    /\ calls = NoCalls

\* one run of _format_table_data, in a process with some hash seed
BuildSampleTable ==
    /\ pc = "table"
    /\ \E seed \in HashSeeds :
         table_data' = format_table_data_joined(raw_data, seed)
    /\ UNCHANGED <<pc, mongo_docs, mysql_pool, mysql_rows, user_query,
                   gemini_analysis, mongo_read, mysql_read, gemini_summary,
                   analysis, raw_data, text_response, chart_data, result,
                   response>>
    /\ UNCHANGED <<requests, calls>>

SampleNext == BuildSampleTable

SampleSpec == SampleInit /\ [][SampleNext]_vars

(***************************************************************************)
(* Several requests in flight together.  One QueryProcessor (module-level  *)
(* query_processor) and one pair of store handles (app.state) serve every  *)
(* request; what a request computes is held in the locals of its           *)
(* coroutines.  A request is a record of these locals; fate holds what the *)
(* generative service and the stores do for it.                            *)
(***************************************************************************)
RequestIds == {1, 2}

ConcurrentQueries == {QScenarioA, QScenarioC, QShort}

ConcurrentFates ==
    { [gemini_analysis |-> [raises |-> FALSE, text |-> <<"J_FULL">>],
       store_raises |-> FALSE, query_fails |-> FALSE, gemini_raises |-> FALSE],
      [gemini_analysis |-> [raises |-> TRUE, text |-> <<>>],
       store_raises |-> TRUE, query_fails |-> TRUE, gemini_raises |-> TRUE],
      [gemini_analysis |-> [raises |-> FALSE, text |-> <<"prose">>],
       store_raises |-> FALSE, query_fails |-> TRUE, gemini_raises |-> FALSE],
      [gemini_analysis |-> [raises |-> FALSE, text |-> <<"J_LIST">>],
       store_raises |-> FALSE, query_fails |-> FALSE, gemini_raises |-> FALSE] }

NewRequest(q, fate) ==
    [pc |-> "idle", user_query |-> q, fate |-> fate, analysis |-> NoAnalysis,
     raw_data |-> EmptyData, text_response |-> NoText, table_data |-> NoTable,
     chart_data |-> NoChart, result |-> NoResult, response |-> NoResponse]

\* the next step of a request: the route and process_query, on the locals
request_step(r, docs, pool, rows) ==
    CASE r.pc = "idle" ->
           IF QueryRejected(r.user_query)
             THEN [r EXCEPT !.pc = "rejected", !.response = HTTPException(400)]
             ELSE [r EXCEPT !.pc = "analyze"]
      [] r.pc = "analyze" ->
           LET a == analyze_query_intent(r.user_query, r.fate.gemini_analysis)
           IN  IF a.raised
                 THEN [r EXCEPT !.pc = "returned",
                         !.result = process_query_except("classification error")]
               ELSE IF a.value.kind # "dict"
                 THEN [r EXCEPT !.pc = "returned", !.analysis = a.value,
                         !.result = process_query_except("TypeError")]
               ELSE [r EXCEPT !.pc = "fetch_mongodb",
                       !.analysis = with_user_query(a.value, r.user_query)]
      [] r.pc = "fetch_mongodb" ->
           IF DataSourcesRaises(r.analysis)
             THEN LET failed == [EmptyData EXCEPT !.keys = {"error"},
                                                  !.error = "TypeError"]
                  IN  [r EXCEPT !.pc = "returned", !.raw_data = failed,
                                !.result = fetch_error_result(failed)]
           ELSE IF InSources("mongodb", r.analysis)
             THEN [r EXCEPT !.pc = "fetch_mysql",
                     !.raw_data =
                        [@ EXCEPT !.keys = @ \cup {"client_profiles"},
                                  !.client_profiles =
                                     fetch_mongodb_data(r.analysis, docs,
                                                        r.fate.store_raises)]]
           ELSE [r EXCEPT !.pc = "fetch_mysql"]
      [] r.pc = "fetch_mysql" ->
           IF InSources("mysql", r.analysis)
             THEN [r EXCEPT !.pc = "summary",
                     !.raw_data =
                        [@ EXCEPT !.keys = @ \cup {"transactions"},
                                  !.transactions =
                                     fetch_mysql_data(pool, rows,
                                                      pool /\ r.fate.query_fails)]]
             ELSE [r EXCEPT !.pc = "summary"]
      [] r.pc = "summary" ->
           LET t == generate_text_summary(r.user_query, r.raw_data,
                                          r.fate.gemini_raises)
           IN  IF t.raised
                 THEN [r EXCEPT !.pc = "returned",
                         !.result = format_response_except("summary error")]
                 ELSE [r EXCEPT !.pc = "table", !.text_response = t.value]
      [] r.pc = "table" ->
           [r EXCEPT !.pc = "chart", !.table_data = format_table_data(r.raw_data)]
      [] r.pc = "chart" ->
           LET chart == generate_chart_data(r.raw_data, r.analysis)
           IN  [r EXCEPT !.pc = "returned", !.chart_data = chart,
                         !.result = format_response(r.text_response,
                                                    r.table_data, chart)]
      [] r.pc = "returned" ->
           [r EXCEPT !.pc = "responded", !.response = route_response(r.result)]
      [] OTHER -> r

\* the request is over: rejected, or answered
Finished(r) == r.pc \in {"rejected", "responded"}

\* the request run from its current step to its end with no other request
RECURSIVE run_alone(_, _, _, _)
run_alone(r, docs, pool, rows) ==
    IF Finished(r) THEN r
    ELSE run_alone(request_step(r, docs, pool, rows), docs, pool, rows)

\* MySQL.pool after a step of a request if execute_query closed the pool it
\* had used
pool_after_step_closed(r, pool) ==
    IF r.pc = "fetch_mysql" THEN FALSE ELSE pool

\* MySQL.pool after a step of a request: no step assigns it (execute_query
\* acquires a connection from the pool and releases it)
pool_after_step(r, pool) == pool

ConcurrentInit ==
    /\ pc = "idle"
    /\ mongo_docs \in {Prefix(LiveProfiles, 1), LargeProfiles}
    /\ mysql_pool = TRUE
    /\ mysql_rows = Prefix(LiveRows, MaxLiveRows)
    /\ user_query = <<>>
    /\ gemini_analysis = NoCall
    /\ mongo_read = "none"
    /\ mysql_read = "none"
    /\ gemini_summary = "none"
    /\ analysis = NoAnalysis
    /\ raw_data = EmptyData
    /\ text_response = NoText
    /\ table_data = NoTable
    /\ chart_data = NoChart
    /\ result = NoResult
    /\ response = NoResponse
    /\ calls = NoCalls
    /\ requests \in [RequestIds ->
                       {NewRequest(q, fate) : q \in ConcurrentQueries,
                                              fate \in ConcurrentFates}]

\* one step of one of the requests
RequestStep ==
    \E i \in RequestIds :
      /\ ~Finished(requests[i])
      /\ requests' = [requests EXCEPT
                        ![i] = request_step(@, mongo_docs, mysql_pool,
                                            mysql_rows)]
      /\ mysql_pool' = pool_after_step(requests[i], mysql_pool)
      /\ UNCHANGED <<pc, mongo_docs, mysql_rows, user_query, gemini_analysis,
                     mongo_read, mysql_read, gemini_summary, analysis,
                     raw_data, text_response, table_data, chart_data, result,
                     response, calls>>

ConcurrentNext == RequestStep

ConcurrentSpec == ConcurrentInit /\ [][ConcurrentNext]_vars

(***************************************************************************)
(* The two builders of _format_response on the same fetched data, in       *)
(* either order: _format_table_data (line 360) and _generate_chart_data    *)
(* (line 363) take raw_data and analysis and return a new value.           *)
(***************************************************************************)
BuilderQueries == {QScenarioA, QListAll, QVirat}

BuilderAnalyses ==
    {with_user_query(JsonValue(tok), q) :
       tok \in {"J_FULL", "J_LINE", "J_MYSQL_ONLY"}, q \in BuilderQueries}

BuilderInputs ==
    {[keys |-> ks,
      client_profiles |-> IF "client_profiles" \in ks
                            THEN Take(get_sample_mongodb_data, n) ELSE <<>>,
      transactions |-> IF "transactions" \in ks
                         THEN Take(get_sample_mysql_data, m) ELSE <<>>,
      error |-> ""] :
       n \in {2, Len(get_sample_mongodb_data)},
       m \in {3, Len(get_sample_mysql_data)},
       ks \in {{"client_profiles", "transactions"}, {"client_profiles"},
               {"transactions"}}}

BuildersInit ==
    /\ pc = "table"
    /\ mongo_docs = <<>>
    /\ mysql_pool = FALSE
    /\ mysql_rows = <<>>
    /\ user_query = <<>>
    /\ gemini_analysis = NoCall
    /\ mongo_read = "none"
    /\ mysql_read = "none"
    /\ gemini_summary = "none"
    /\ analysis \in BuilderAnalyses
    /\ raw_data \in BuilderInputs
    /\ text_response = NoText
    /\ table_data = NoTable
    /\ chart_data = NoChart
    /\ result = NoResult
    /\ response = NoResponse
    /\ requests = <<>>
    /\ calls = NoCalls

\* raw_data after _format_table_data: the builder reads raw_data and appends
\* to its own table_rows and client_portfolios; the sort of line 616 is on
\* table_rows
raw_data_after_table(raw) == raw

\* raw_data after _generate_chart_data if the chart filter stored its
\* filtered lists in raw_data
raw_data_after_chart_in_place(raw, a) ==
    IF GetVisualizationType(a) = "line_chart" THEN raw
    ELSE [get_filtered_data_for_charts(raw, a) EXCEPT !.keys = raw.keys]

\* raw_data after _generate_chart_data: _get_filtered_data_for_charts fills
\* a new dict filtered_data with new lists (lines 756, 760, 798)
raw_data_after_chart(raw, a) == raw

BuildTable ==
    /\ pc = "table"
    /\ ~table_data.present
    /\ table_data' = format_table_data(raw_data)
    /\ raw_data' = raw_data_after_table(raw_data)
    /\ UNCHANGED <<pc, mongo_docs, mysql_pool, mysql_rows, user_query,
                   gemini_analysis, mongo_read, mysql_read, gemini_summary,
                   analysis, text_response, chart_data, result, response,
                   requests, calls>>

BuildChart ==
    /\ pc = "table"
    /\ ~chart_data.present
    /\ chart_data' = generate_chart_data(raw_data, analysis)
    /\ raw_data' = raw_data_after_chart(raw_data, analysis)
    /\ UNCHANGED <<pc, mongo_docs, mysql_pool, mysql_rows, user_query,
                   gemini_analysis, mongo_read, mysql_read, gemini_summary,
                   analysis, text_response, table_data, result, response,
                   requests, calls>>

BuildersNext == BuildTable \/ BuildChart

BuildersSpec == BuildersInit /\ [][BuildersNext]_vars

(***************************************************************************)
(* Properties.                                                             *)
(***************************************************************************)
\* the classification step of the request is over
Classified == pc \notin {"idle", "rejected", "analyze"}

\* process_query has returned
Returned == pc \in {"returned", "responded"}

\* what json.loads was given for the answer of the classification call
ParsedAnswer == json_loads(ExtractJson(Strip(gemini_analysis.text)))

\* the classification call raised or its answer is not JSON
ClassificationFailed ==
    Classified /\ (gemini_analysis.raises \/ ParsedAnswer.raised)

\* the classification call answered with a JSON value
ClassificationParsed ==
    Classified /\ ~gemini_analysis.raises /\ ~ParsedAnswer.raised

\* the descriptor analysis holds once user_query has been added to d
WithUserQuery(d) ==
    [d EXCEPT !.keys = @ \cup {"user_query"}, !.user_query = user_query]

WordIn(word) == Contains(word, Lower(user_query))

\* C1: whichever of the classification call, the profile-store read, the
\* transaction-store read and the summarization call fail, process_query
\* returns error = False with a text response, table data and chart data.
\* (The classification call either fails or answers with a JSON object whose
\* data_sources is a list.)
C1_FailuresNeverGiveError ==
    (Returned /\ (ClassificationFailed
                  \/ (ClassificationParsed
                      /\ ParsedAnswer.value.kind = "dict"
                      /\ ParsedAnswer.value.data_sources_kind = "list")))
    => /\ result.kind = "dict"
       /\ result.error = FALSE
       /\ result.text_response.source \in {"gemini", "fallback"}
       /\ result.table_data.present
       /\ result.chart_data.present

\* all four dependencies failed and the response is not an error
C1_Witness ==
    /\ pc = "responded"
    /\ gemini_analysis.raises
    /\ mongo_read = "raised"
    /\ mysql_read = "query_error"
    /\ gemini_summary = "raised"
    /\ result.error = FALSE
    /\ response.success

\* C2: process_query never raises to the route; an exception that reaches
\* process_query (the TypeError of line 65 on a non-dict descriptor, the
\* error outcome of the fetch) gives a result with error = True, and the
\* route answers such a result with success = false, the apology text and
\* the error detail, never with a status 500.
C2_ProcessQueryNeverRaises ==
    /\ result.kind # "raised"
    /\ response.status_code # 500
    /\ (Returned /\ analysis.kind \notin {"dict", "none"})
         => (result.error /\ result.text_response = LiteralText("Error processing query"))
    /\ (Returned /\ DataSourcesRaises(analysis))
         => (result.error /\ result.text_response = LiteralText("Error fetching data"))
    /\ (pc = "responded" /\ result.error)
         => /\ response.kind = "QueryResponse"
            /\ response.success = FALSE
            /\ response.text_response = LiteralText(Apology)
            /\ response.error_message = result.message
            /\ ~response.table_data.present
            /\ ~response.chart_data.present

\* an exception reached process_query and the route answered success = false
C2_Witness ==
    /\ pc = "responded"
    /\ analysis.kind = "list"
    /\ result.error
    /\ response.kind = "QueryResponse"
    /\ ~response.success

\* C3: when the classification call raises or its answer is not JSON, the
\* descriptor is the one the rule-based fallback gives for the query text,
\* and the request goes on without an error.
C3_FailedClassificationFallsBack ==
    ClassificationFailed
    => /\ analysis = WithUserQuery(fallback_query_analysis(user_query))
       /\ ~result.error

\* the answer was prose, and the fallback descriptor is in use
C3_Witness ==
    /\ pc = "fetch_mongodb"
    /\ ~gemini_analysis.raises
    /\ gemini_analysis.text = <<"prose">>
    /\ user_query = QScenarioB
    /\ analysis.query_type = breakdown_analysis

\* C4 (as claimed): when the answer parses as JSON but is not an object or
\* lacks a descriptor field, the descriptor is the rule-based fallback one.
C4_IncompleteAnswerFallsBack ==
    (ClassificationParsed
     /\ (ParsedAnswer.value.kind # "dict"
         \/ ~(DescriptorKeys \subseteq ParsedAnswer.value.keys)))
    => /\ analysis = WithUserQuery(fallback_query_analysis(user_query))
       /\ ~result.error

\* C5: the fallback classifier applies its four rules in order on the
\* lower-cased text, the first match wins; data sources are both stores, the
\* entity list is empty and the aggregation hints are count, sum.
C5_FallbackRules ==
    ClassificationFailed
    => LET top == \/ WordIn(<<"t","o","p">>) \/ WordIn(<<"b","e","s","t">>)
                  \/ WordIn(<<"h","i","g","h","e","s","t">>)
                  \/ WordIn(<<"m","o","s","t">>)
           breakdown == \/ WordIn(<<"b","r","e","a","k","u","p">>)
                        \/ WordIn(<<"b","r","e","a","k","d","o","w","n">>)
                        \/ WordIn(<<"d","i","s","t","r","i","b","u","t","i","o","n">>)
           portfolio == \/ WordIn(<<"p","o","r","t","f","o","l","i","o">>)
                        \/ WordIn(<<"i","n","v","e","s","t","m","e","n","t">>)
       IN  /\ top => /\ analysis.query_type = top_performers
                     /\ analysis.visualization_type = "bar_chart"
           /\ (~top /\ breakdown)
                => /\ analysis.query_type = breakdown_analysis
                   /\ analysis.visualization_type = "pie_chart"
           /\ (~top /\ ~breakdown /\ portfolio)
                => /\ analysis.query_type = portfolio_summary
                   /\ analysis.visualization_type = "table"
           /\ (~top /\ ~breakdown /\ ~portfolio)
                => /\ analysis.query_type = client_info
                   /\ analysis.visualization_type = "text"
           /\ analysis.data_sources = <<"mongodb", "mysql">>
           /\ analysis.data_sources_kind = "list"
           /\ analysis.key_entities = <<>>
           /\ analysis.suggested_aggregations = <<"count", "sum">>

\* a text that fires the first and the second rule is classified by the first
C5_Witness ==
    /\ ClassificationFailed
    /\ user_query = QTopDistribution
    /\ analysis.query_type = top_performers
    /\ analysis.visualization_type = "bar_chart"

\* C6 (as claimed): fetching never yields an error outcome, and
\* process_query never returns its "Error fetching data" response.
C6_FetchNeverErrors ==
    /\ "error" \notin raw_data.keys
    /\ result.text_response # LiteralText("Error fetching data")

\* the profiles the compiled criteria select from the sample set
SampleMatching ==
    MongoFind(get_sample_mongodb_data, filter_criteria(Lower(user_query)))

\* C7 (as claimed): when the profile-store read fails, the profiles are the
\* sample records that satisfy the predicate compiled from the query text if
\* there is one, the full sample set otherwise, and never empty.
C7_SampleFallbackFiltered ==
    mongo_read = "raised"
    => /\ raw_data.client_profiles =
            (IF SampleMatching # <<>> THEN SampleMatching
             ELSE get_sample_mongodb_data)
       /\ raw_data.client_profiles # <<>>

\* C8 (as claimed): when the transaction-store read fails, the transactions
\* are the 13-record sample set of the Data Fetcher.
C8_FailedReadGivesFetcherSample ==
    mysql_read \in {"not_connected", "query_error"}
    => raw_data.transactions = get_sample_mysql_data

\* client identifiers of the table rows
TableClientIds ==
    {table_data.rows[i].Client_ID : i \in 1..Len(table_data.rows)}

\* client identifiers of the records a bar or pie chart is summed from
ChartClientIds ==
    LET filtered_data == get_filtered_data_for_charts(raw_data, analysis)
    IN  IF filtered_data.transactions # <<>>
          THEN {filtered_data.transactions[i].client_id :
                  i \in 1..Len(filtered_data.transactions)}
          ELSE {filtered_data.client_profiles[i].client_id :
                  i \in 1..Len(filtered_data.client_profiles)}

\* C9 (as claimed): the client identifiers behind the table rows are those
\* behind the chart series (bar and pie charts, which are built from the
\* fetched data).
C9_TableAndChartSamePopulation ==
    (Returned /\ ~result.error /\ chart_data.type \in {"bar", "pie"})
    => TableClientIds = ChartClientIds

\* the numeric portfolio value a row shows
RowValue(row) ==
    IF HasColumn(row, "Total Portfolio Value")
      THEN ParseCurrency(row.Total_Portfolio_Value)
      ELSE ParseCurrency(row.Portfolio_Value)

\* C10 (as claimed): the table rows are in non-increasing order of their
\* numeric portfolio value and no row has the client name Unknown.
C10_RowsSortedNoUnknown ==
    table_data.present
    => /\ \A i \in 1..(Len(table_data.rows) - 1) :
            RowValue(table_data.rows[i]) >= RowValue(table_data.rows[i + 1])
       /\ \A i \in 1..Len(table_data.rows) :
            table_data.rows[i].Client_Name # Unknown

\* the table has been built from profiles and transactions, every profile
\* having an identifier
JoinedTableBuilt ==
    /\ table_data.present
    /\ "client_profiles" \in raw_data.keys /\ "transactions" \in raw_data.keys
    /\ \A i \in 1..Len(raw_data.client_profiles) :
         raw_data.client_profiles[i].client_id # Absent

\* the indices of the fetched transactions of one client
TransactionsOf(cid) ==
    {i \in 1..Len(raw_data.transactions) :
       raw_data.transactions[i].client_id = cid}

\* the indices of the fetched profiles of one client
ProfilesOf(cid) ==
    {i \in 1..Len(raw_data.client_profiles) :
       raw_data.client_profiles[i].client_id = cid}

\* C11: when profiles and transactions are both present the table builder
\* forms exactly one candidate row per distinct client identifier of the
\* transactions; the total of the row is the sum of the transaction values of
\* that client, its investment types and managers are the distinct values of
\* that client, and name, risk and location are those of the profile with the
\* identifier, or Unknown, N/A, N/A when there is none (the row is then
\* formed all the same, and left out of the final rows).
C11_OneJoinedRowPerClient ==
    JoinedTableBuilt =>
      LET rows == CandidateRows(raw_data)
          txns == raw_data.transactions
          profs == raw_data.client_profiles
      IN  /\ \A t \in 1..Len(txns) :
                Cardinality({r \in 1..Len(rows) :
                               rows[r].Client_ID = txns[t].client_id}) = 1
          /\ \A r \in 1..Len(rows) :
               LET cid == rows[r].Client_ID
                   own == TransactionsOf(cid)
               IN  /\ own # {}
                   /\ ParseCurrency(rows[r].Total_Portfolio_Value)
                        = SumSeq([t \in 1..Len(txns) |->
                                    IF t \in own THEN txns[t].portfolio_value
                                    ELSE 0])
                   /\ rows[r].Investment_Types
                        = {txns[t].investment_type : t \in own}
                   /\ rows[r].Relationship_Manager
                        = {txns[t].relationship_manager : t \in own}
                   /\ IF ProfilesOf(cid) = {}
                        THEN /\ rows[r].Client_Name = Unknown
                             /\ rows[r].Risk_Appetite = "N/A"
                             /\ rows[r].Location = "N/A"
                        ELSE \E p \in ProfilesOf(cid) :
                               /\ rows[r].Client_Name = profs[p].name
                               /\ rows[r].Risk_Appetite = profs[p].risk_appetite
                               /\ rows[r].Location
                                    = IF profs[p].location = Absent THEN "N/A"
                                      ELSE profs[p].location
          /\ {table_data.rows[i].Client_ID : i \in 1..Len(table_data.rows)}
               = {rows[r].Client_ID : r \in {k \in 1..Len(rows) :
                                               ProfilesOf(rows[k].Client_ID) # {}}}

\* C11 witness: a table built from live rows of which one client (C009) has
\* no profile, so that its candidate row is Unknown, and the other (C001) has
\* one.
C11_Witness ==
    /\ JoinedTableBuilt
    /\ \E r \in 1..Len(CandidateRows(raw_data)) :
         /\ CandidateRows(raw_data)[r].Client_Name = Unknown
         /\ CandidateRows(raw_data)[r].Client_ID = "C009"
    /\ Len(table_data.rows) = 1
    /\ table_data.rows[1].Client_ID = "C001"

\* the profiles the filters are asked about: the sample set and the documents
\* of the collection
KnownProfiles ==
    {get_sample_mongodb_data[i] : i \in 1..Len(get_sample_mongodb_data)}
      \cup {mongo_docs[i] : i \in 1..Len(mongo_docs)}

\* how many of the trigger groups of one dimension occur in the query text
TriggersIn(groups) ==
    Cardinality({g \in 1..Len(groups) : AnyIn(groups[g], Lower(user_query))})

LocationTriggers == << <<mumbai>>, <<ranchi>> >>
RiskTriggers == << <<conservative>>, <<moderate>>, <<aggressive>> >>
NameTriggers ==
    <<ViratWords, DhoniWords, RohitWords, DeepikaWords, ShahRukhWords>>

\* the text has two triggers of one dimension
SeveralTriggers ==
    \/ TriggersIn(LocationTriggers) > 1
    \/ TriggersIn(RiskTriggers) > 1
    \/ TriggersIn(NameTriggers) > 1

\* C12 (as claimed): when several triggers of one dimension occur in the
\* text, the first in the fixed order sets the constraint (mumbai before
\* ranchi gives Mumbai only), and the sample-fallback filter and the chart
\* filter accept exactly the profiles the live-store criteria accept.
C12_FirstTriggerWinsEverywhere ==
    (Classified /\ SeveralTriggers) =>
      LET uq == Lower(user_query)
          criteria == filter_criteria(uq)
      IN  /\ TriggersIn(LocationTriggers) > 1 => criteria.location = "Mumbai"
          /\ \A p \in KnownProfiles :
               /\ SampleIncludeClient(uq, p) = MongoMatches(criteria, p)
               /\ ChartIncludeClient(uq, p) = MongoMatches(criteria, p)

\* the value a dimension is constrained to: that of the first trigger group,
\* in the fixed order, that occurs in the text; 0 when none occurs
FirstTrigger(groups) ==
    IF TriggersIn(groups) = 0 THEN 0
    ELSE CHOOSE g \in 1..Len(groups) :
           /\ AnyIn(groups[g], Lower(user_query))
           /\ \A h \in 1..(g - 1) : ~AnyIn(groups[h], Lower(user_query))

LocationValues == <<"Mumbai", "Ranchi">>
RiskValues == <<"conservative", "moderate", "aggressive">>
NameValues == <<Virat, Dhoni, Rohit, Deepika, Shah_Rukh>>

\* the conjunction of the constraints of the three dimensions
AcceptedByConstraints(p) ==
    /\ FirstTrigger(LocationTriggers) # 0
         => p.location = LocationValues[FirstTrigger(LocationTriggers)]
    /\ FirstTrigger(RiskTriggers) # 0
         => p.risk_appetite = RiskValues[FirstTrigger(RiskTriggers)]
    /\ FirstTrigger(NameTriggers) # 0
         => Contains(NameValues[FirstTrigger(NameTriggers)], p.name)

\* C13 (as claimed): the live-store criteria and the sample-fallback filter
\* accept a profile exactly when it satisfies the constraint of every
\* dimension that has a trigger in the text; with no trigger they accept
\* every profile.
C13_ConstraintsConjoined ==
    Classified =>
      \A i \in 1..Len(get_sample_mongodb_data) :
        LET p == get_sample_mongodb_data[i]
            uq == Lower(user_query)
        IN  /\ MongoMatches(filter_criteria(uq), p) = AcceptedByConstraints(p)
            /\ SampleIncludeClient(uq, p) = AcceptedByConstraints(p)

\* the text triggers one name constraint and no other constraint
OnlyNameTriggered ==
    /\ Classified
    /\ TriggersIn(NameTriggers) = 1
    /\ TriggersIn(LocationTriggers) = 0 /\ TriggersIn(RiskTriggers) = 0

\* the canonical substring is in the name, letter case ignored
NameContainsIgnoringCase(p) ==
    Contains(Lower(NameValues[FirstTrigger(NameTriggers)]), Lower(p.name))

\* C14 (as claimed): the name constraint is a case-insensitive contains test
\* of the canonical substring against the name of the profile, in the
\* live-store criteria, the sample-fallback filter and the chart filter.
C14_NameTestIgnoresCase ==
    OnlyNameTriggered =>
      \A p \in KnownProfiles :
        LET uq == Lower(user_query)
        IN  /\ MongoMatches(filter_criteria(uq), p) = NameContainsIgnoringCase(p)
            /\ SampleIncludeClient(uq, p) = NameContainsIgnoringCase(p)
            /\ ChartIncludeClient(uq, p) = NameContainsIgnoringCase(p)

\* some trigger of some dimension occurs in the text
AnyTrigger ==
    TriggersIn(LocationTriggers) + TriggersIn(RiskTriggers)
      + TriggersIn(NameTriggers) > 0

\* got holds the cap documents of largest portfolio value among those of the
\* collection at the indices idx (all of them when there are fewer), in
\* non-increasing order of value
LargestOf(got, idx, cap) ==
    /\ Len(got) = IF Cardinality(idx) < cap THEN Cardinality(idx) ELSE cap
    /\ \A k \in 1..Len(got) : \E i \in idx : got[k] = mongo_docs[i]
    /\ Cardinality({got[k] : k \in 1..Len(got)}) = Len(got)
    /\ \A k \in 1..(Len(got) - 1) :
         got[k].portfolio_value >= got[k + 1].portfolio_value
    /\ \A i \in idx :
         (\A k \in 1..Len(got) : got[k] # mongo_docs[i])
           => mongo_docs[i].portfolio_value <= got[Len(got)].portfolio_value

\* C15: a profile read the store answers is, when a trigger occurs in the
\* text, the matching documents in descending order of portfolio value, at
\* most 20; otherwise, when the query type contains top or portfolio, all
\* documents in descending order of value, at most 10; otherwise the
\* documents in their natural order, at most 20.
C15_ProfileReadChoice ==
    mongo_read = "ok" =>
      LET got == raw_data.client_profiles
          query_type == GetQueryType(analysis)
          everything == 1..Len(mongo_docs)
          matching == {i \in everything :
                         MongoMatches(filter_criteria(Lower(user_query)),
                                      mongo_docs[i])}
      IN  IF AnyTrigger THEN LargestOf(got, matching, 20)
          ELSE IF \/ Contains(<<"t","o","p">>, query_type)
                  \/ Contains(<<"p","o","r","t","f","o","l","i","o">>, query_type)
            THEN LargestOf(got, everything, 10)
          ELSE /\ Len(got) = IF Len(mongo_docs) < 20 THEN Len(mongo_docs) ELSE 20
               /\ \A k \in 1..Len(got) : got[k] = mongo_docs[k]

\* C15 witness: a read of a collection of more than 20 documents that
\* returned its 10 largest.
C15_Witness ==
    /\ mongo_read = "ok" /\ Len(mongo_docs) > 20
    /\ ~AnyTrigger
    /\ Len(raw_data.client_profiles) = 10
    /\ raw_data.client_profiles[1].portfolio_value
         > raw_data.client_profiles[10].portfolio_value

\* the chart has been built
ChartBuilt == chart_data.present

\* chart construction failed: with both categories fetched, a profile the
\* chart filter keeps has no client_id (KeyError, line 797); the line series
\* does not read the data
ChartConstructionFailed ==
    /\ ChartBuilt
    /\ GetVisualizationType(analysis) # "line_chart"
    /\ "client_profiles" \in raw_data.keys /\ "transactions" \in raw_data.keys
    /\ \E i \in 1..Len(raw_data.client_profiles) :
         /\ raw_data.client_profiles[i].client_id = Absent
         /\ ChartIncludeClient(Lower(user_query), raw_data.client_profiles[i])

\* the fixed series of the line chart
LineSeries ==
    /\ chart_data.type = "line"
    /\ chart_data.labels = <<"Jan", "Feb", "Mar", "Apr", "May">>
    /\ chart_data.data = <<10000000, 12000000, 11500000, 13000000, 14500000>>

\* the dispatch on the visualization type, when construction does not fail
ChartDispatched ==
    LET viz_type == IF "visualization_type" \in analysis.keys
                      THEN analysis.visualization_type ELSE "missing"
    IN  CASE viz_type = "pie_chart" -> chart_data.type = "pie"
          [] viz_type = "line_chart" -> LineSeries
          [] OTHER -> chart_data.type = "bar"

\* the descriptor without labels and data
EmptyDescriptor(type) ==
    /\ chart_data.type = type
    /\ chart_data.labels = <<>> /\ chart_data.data = <<>>

\* C16 (as claimed): pie gives a pie descriptor, line the fixed five-point
\* series, bar and every other value a bar descriptor, and a failure inside
\* chart construction gives an empty bar descriptor.
C16_FailureGivesEmptyBar ==
    ChartBuilt =>
      IF ChartConstructionFailed THEN EmptyDescriptor("bar")
      ELSE ChartDispatched

\* C16 (amended): pie gives a pie descriptor, line the fixed five-point
\* series whatever the data, bar and every other value (table, text, an
\* unknown value, a missing one) a bar descriptor; a failure inside chart
\* construction gives an empty descriptor of the type dispatched to: an empty
\* pie descriptor for pie, an empty bar descriptor otherwise.
C16_ChartDispatch ==
    ChartBuilt =>
      /\ ChartDispatched
      /\ ChartConstructionFailed
           => EmptyDescriptor(IF GetVisualizationType(analysis) = "pie_chart"
                                THEN "pie" ELSE "bar")

\* C16 witness: a pie chart whose construction failed, which is an empty pie
\* descriptor.
C16_Witness ==
    /\ ChartConstructionFailed
    /\ GetVisualizationType(analysis) = "pie_chart"
    /\ EmptyDescriptor("pie")

\* the data the chart builders group: what the chart filter keeps
ChartInput == get_filtered_data_for_charts(raw_data, analysis)

\* labels and data are the groups of the records by key and the sum of the
\* values of each group
GroupedBySum(records, Key(_)) ==
    /\ {chart_data.labels[g] : g \in 1..Len(chart_data.labels)}
         = {Key(records[i]) : i \in 1..Len(records)}
    /\ Len(chart_data.labels)
         = Cardinality({Key(records[i]) : i \in 1..Len(records)})
    /\ Len(chart_data.data) = Len(chart_data.labels)
    /\ \A g \in 1..Len(chart_data.labels) :
         chart_data.data[g]
           = SumSeq([i \in 1..Len(records) |->
                       IF Key(records[i]) = chart_data.labels[g]
                         THEN records[i].portfolio_value ELSE 0])

\* a bar chart whose construction did not fail
BarChartBuilt ==
    ChartBuilt /\ chart_data.type = "bar" /\ ~ChartConstructionFailed

\* C17 (as claimed): a bar chart has, when the filtered data holds a
\* transaction, one label per relationship manager with the sum of the
\* filtered transaction values of that manager; otherwise one label per
\* client name among the filtered profiles with the sum of the portfolio
\* values of all filtered profiles of that name.
C17_BarChartGroups ==
    BarChartBuilt =>
      IF ChartInput.transactions # <<>>
        THEN GroupedBySum(ChartInput.transactions,
                          LAMBDA t : t.relationship_manager)
        ELSE GroupedBySum(ChartInput.client_profiles, LAMBDA c : c.name)

\* a pie chart whose construction did not fail
PieChartBuilt ==
    ChartBuilt /\ chart_data.type = "pie" /\ ~ChartConstructionFailed

\* C18: a pie chart has, when the filtered data holds a transaction, one
\* label per investment type with the sum of the filtered transaction values
\* of that type; otherwise one label per risk category among the filtered
\* profiles with the sum of their portfolio values.  For the query of
\* scenario B with the classification unavailable the descriptor is
\* breakdown_analysis with a pie chart, and the chart groups the transactions
\* by investment type.
C18_PieChartGroups ==
    /\ PieChartBuilt =>
         IF ChartInput.transactions # <<>>
           THEN GroupedBySum(ChartInput.transactions,
                             LAMBDA t : t.investment_type)
           ELSE GroupedBySum(ChartInput.client_profiles,
                             LAMBDA c : c.risk_appetite)
    /\ (ChartBuilt /\ user_query = QScenarioB /\ ClassificationFailed) =>
         /\ analysis.query_type = breakdown_analysis
         /\ analysis.visualization_type = "pie_chart"
         /\ chart_data.type = "pie"
         /\ (ChartInput.transactions # <<>> /\ ~ChartConstructionFailed)
              => /\ chart_data.title = "Portfolio Breakdown by Investment Type"
                 /\ \A g \in 1..Len(chart_data.labels) :
                      \E i \in 1..Len(ChartInput.transactions) :
                        chart_data.labels[g]
                          = ChartInput.transactions[i].investment_type

\* C18 witness: scenario B with the classification unavailable, the pie chart
\* built from transactions of which several have the same investment type.
C18_Witness ==
    /\ PieChartBuilt /\ user_query = QScenarioB /\ ClassificationFailed
    /\ chart_data.title = "Portfolio Breakdown by Investment Type"
    /\ Len(chart_data.labels) > 1
    /\ Len(chart_data.labels) < Len(ChartInput.transactions)

\* the summarization call failed and the text has been built
SummaryFellBack == gemini_summary = "raised" /\ text_response.source # "none"

\* the sum of the portfolio values of the records
TotalOf(records) ==
    SumSeq([i \in 1..Len(records) |-> records[i].portfolio_value])

\* C19: when the summarization call fails the text is the template selected
\* by the categories present in the fetched data (both, profiles only,
\* transactions only, neither); it reports the number of records of each
\* category present and the total value (of the profiles when they are
\* present, of the transactions otherwise), for the query asked.  Building
\* it does not raise.
C19_FallbackSummaryTemplate ==
    SummaryFellBack =>
      LET profiles == "client_profiles" \in raw_data.keys
          transactions == "transactions" \in raw_data.keys
      IN  /\ text_response.source = "fallback"
          /\ text_response.user_query = user_query
          /\ text_response.template
               = CASE profiles /\ transactions -> "both"
                   [] profiles /\ ~transactions -> "client_profiles"
                   [] ~profiles /\ transactions -> "transactions"
                   [] OTHER -> "no_data"
          /\ profiles
               => /\ text_response.total_clients = Len(raw_data.client_profiles)
                  /\ text_response.total_value
                       = TotalOf(raw_data.client_profiles)
          /\ transactions
               => text_response.total_transactions = Len(raw_data.transactions)
          /\ (transactions /\ ~profiles)
               => text_response.total_value = TotalOf(raw_data.transactions)

\* C19 witness: the summarization call failed with both sample sets fetched;
\* the text is the template for both categories with 5 clients and 10
\* transactions.
C19_Witness ==
    /\ SummaryFellBack
    /\ text_response.template = "both"
    /\ text_response.total_clients = 5
    /\ text_response.total_transactions = 10
    /\ text_response.total_value = 330000000

\* scenario A has been answered with the classification unavailable
ScenarioAUnclassified ==
    ChartBuilt /\ user_query = QScenarioA /\ ClassificationFailed

\* the fetched profiles are in non-increasing order of portfolio value
ProfilesDescending ==
    \A i \in 1..(Len(raw_data.client_profiles) - 1) :
      raw_data.client_profiles[i].portfolio_value
        >= raw_data.client_profiles[i + 1].portfolio_value

\* the labels of the chart are exactly the values of Key over the records
LabelsAre(records, Key(_)) ==
    {chart_data.labels[g] : g \in 1..Len(chart_data.labels)}
      = {Key(records[i]) : i \in 1..Len(records)}

\* C20 (as claimed): for the query of scenario A with the classification
\* unavailable the descriptor is top_performers with a bar chart, the fetcher
\* returns at most 10 profiles in descending order of portfolio value, and
\* the chart groups by client name.
C20_ScenarioAByClientName ==
    ScenarioAUnclassified =>
      /\ analysis.query_type = top_performers
      /\ analysis.visualization_type = "bar_chart"
      /\ Len(raw_data.client_profiles) <= 10
      /\ ProfilesDescending
      /\ chart_data.type = "bar"
      /\ LabelsAre(ChartInput.client_profiles, LAMBDA c : c.name)

\* two tables have the same rows in the same order, the items of the joined
\* cells compared as sets
SameUpToCellOrder(t, u) ==
    /\ t.columns = u.columns
    /\ Len(t.rows) = Len(u.rows)
    /\ \A i \in 1..Len(t.rows) :
         /\ [t.rows[i] EXCEPT !.Relationship_Manager = {},
                              !.Investment_Types = {}]
              = [u.rows[i] EXCEPT !.Relationship_Manager = {},
                                  !.Investment_Types = {}]
         /\ \A cell \in {"managers", "types"} :
              LET a == IF cell = "managers" THEN t.rows[i].Relationship_Manager
                       ELSE t.rows[i].Investment_Types
                  b == IF cell = "managers" THEN u.rows[i].Relationship_Manager
                       ELSE u.rows[i].Investment_Types
              IN  /\ Len(a) = Len(b)
                  /\ {a[k] : k \in 1..Len(a)} = {b[k] : k \in 1..Len(b)}

\* the table built from the whole sample sets has one row per distinct client
\* identifier of the sample transactions
SampleRowCount ==
    (/\ table_data.present
     /\ raw_data.client_profiles = get_sample_mongodb_data
     /\ raw_data.transactions = get_sample_mysql_data)
    => Len(table_data.rows)
         = Cardinality({get_sample_mysql_data[i].client_id :
                          i \in 1..Len(get_sample_mysql_data)})

\* C21 (as claimed): the table built from the 5 sample profiles and the 13
\* sample transactions has as many rows as the sample transactions have
\* distinct client identifiers, and every run of the builder gives the same
\* rows.
C21_SameRowsEveryRun ==
    /\ []SampleRowCount
    /\ [][table_data.present => table_data' = table_data]_vars

\* C21 (amended): the table built from the 5 sample profiles and the 13
\* sample transactions has as many rows as the sample transactions have
\* distinct client identifiers, and every run of the builder gives the same
\* rows in the same order, up to the order in which the managers and the
\* investment types are listed inside a cell.
C21_SampleTable ==
    /\ []SampleRowCount
    /\ [][table_data.present => SameUpToCellOrder(table_data, table_data')]_vars

\* C21 witness: the table built from the whole sample sets: 5 rows, the
\* first (C005) with three investment types in its cell.
C21_Witness ==
    /\ table_data.present
    /\ raw_data.client_profiles = get_sample_mongodb_data
    /\ raw_data.transactions = get_sample_mysql_data
    /\ Len(table_data.rows) = 5
    /\ table_data.rows[1].Client_ID = "C005"
    /\ Len(table_data.rows[1].Investment_Types) = 3

\* the text of the request, trimmed, has fewer than 3 characters
TooShort == Len(Strip(user_query)) < 3

\* C22: a request whose text, trimmed of surrounding whitespace, has fewer
\* than 3 characters is rejected by the route (status 400), and for it
\* process_query is not invoked: no classification call, no store read, no
\* summarization call, no result.
C22_ShortQueryNeverProcessed ==
    (pc # "idle" /\ TooShort) =>
      /\ pc = "rejected"
      /\ response = HTTPException(400)
      /\ gemini_analysis = NoCall
      /\ mongo_read = "none" /\ mysql_read = "none"
      /\ gemini_summary = "none"
      /\ analysis = NoAnalysis /\ raw_data = EmptyData
      /\ result = NoResult

\* C22 witness: a text of 4 characters of which 3 are spaces was rejected.
C22_Witness ==
    /\ pc = "rejected"
    /\ Len(user_query) >= 3 /\ TooShort
    /\ response.status_code = 400

\* the descriptor is settled: the classification call has been made and the
\* descriptor, from the service or from the fallback, carries the query
DescriptorSettled ==
    /\ gemini_analysis # NoCall
    /\ analysis.kind = "dict"
    /\ analysis.user_query = user_query

\* every store the descriptor names has been read, or replaced by sample data
FetchCompleted ==
    /\ DescriptorSettled
    /\ InSources("mongodb", analysis)
         => mongo_read # "none" /\ "client_profiles" \in raw_data.keys
    /\ InSources("mysql", analysis)
         => mysql_read # "none" /\ "transactions" \in raw_data.keys

\* the order of the steps, as what has been done when a step is taken
StepsInOrder ==
    /\ (mongo_read # "none" \/ mysql_read # "none") => DescriptorSettled
    /\ gemini_summary # "none" => FetchCompleted
    /\ (table_data.present \/ chart_data.present)
         => FetchCompleted /\ gemini_summary # "none"

\* C23: the descriptor is settled before any store read begins and does not
\* change afterwards; the summarization call is issued only after every
\* store read of the request is completed or replaced by sample data, and the
\* fetched data do not change afterwards; table and chart are built only
\* after the fetch is completed.
C23_StepsInOrder ==
    /\ []StepsInOrder
    /\ [][/\ (mongo_read' # "none" \/ mysql_read' # "none")
               => (DescriptorSettled /\ analysis' = analysis)
          /\ gemini_summary' # "none"
               => (FetchCompleted /\ raw_data' = raw_data)]_vars

\* C23 witness: a request whose profile read was replaced by sample data and
\* whose transactions were read, then summarised, with table and chart.
C23_Witness ==
    /\ mongo_read = "raised" /\ mysql_read = "ok"
    /\ gemini_summary # "none"
    /\ table_data.present /\ chart_data.present

\* C24: with two requests handled in any interleaving of their steps over
\* the same stores and the same outcomes of the external services, the
\* response of each request is the response it gets when it runs alone, and
\* no step of a request changes what another request reads (the stores and
\* the store handles).
C24_RequestsIndependent ==
    /\ [](\A i \in RequestIds :
            Finished(requests[i]) =>
              requests[i].response
                = run_alone(NewRequest(requests[i].user_query,
                                       requests[i].fate),
                            mongo_docs, mysql_pool, mysql_rows).response)
    /\ [][UNCHANGED <<mongo_docs, mysql_pool, mysql_rows>>]_vars

\* C24 witness: the first request has been answered with success while the
\* second, for another query, is between its summary and its table.
C24_Witness ==
    /\ requests # <<>>
    /\ requests[1].pc = "responded" /\ requests[1].response.success
    /\ requests[2].pc = "table"
    /\ requests[2].user_query # requests[1].user_query

\* the chart filter ran to its end on the fetched data
ChartFilterReturned == ChartBuilt /\ ~filtered_data_raises(raw_data, analysis)

\* C25: the chart filter is a function of the query text and the data, and
\* filtering its own result again by the same text returns that result
\* unchanged, profiles and transactions.
C25_ChartFilterIdempotent ==
    ChartFilterReturned =>
        get_filtered_data_for_charts(ChartInput, analysis) = ChartInput

\* C25 witness: a chart was built from data of which the filter kept
\* profiles, and kept some transactions and rejected others.
C25_Witness ==
    /\ ChartFilterReturned
    /\ 0 < Len(ChartInput.client_profiles)
    /\ 0 < Len(ChartInput.transactions)
    /\ Len(ChartInput.transactions) < Len(raw_data.transactions)

\* the request is past its classification step
Classification_done == pc \notin {"idle", "rejected", "analyze"}

\* how often each external call and store read was issued
CallCounts ==
    /\ calls.classification = (IF Classification_done THEN 1 ELSE 0)
    /\ calls.summarization <= 1
    /\ calls.mongodb <= 1
    /\ calls.mysql <= 1

\* a step after a call failed does not issue that call again
NoCallAfterFailure ==
    /\ (gemini_analysis # NoCall /\ gemini_analysis.raises)
          => calls'.classification = calls.classification
    /\ gemini_summary = "raised" => calls'.summarization = calls.summarization
    /\ mongo_read = "raised" => calls'.mongodb = calls.mongodb
    /\ mysql_read = "query_error" => calls'.mysql = calls.mysql

\* C26: within one request the classification call is issued exactly once,
\* the summarization call and each store read at most once, and no call is
\* issued again after it failed.
C26_NoRetry ==
    /\ []CallCounts
    /\ [][NoCallAfterFailure]_vars

\* C26 witness: a request answered with success after both calls to the
\* generative service and both store reads failed, each issued once.
C26_Witness ==
    /\ pc = "responded" /\ response.success
    /\ gemini_analysis.raises /\ gemini_summary = "raised"
    /\ mongo_read = "raised" /\ mysql_read = "query_error"
    /\ calls = [classification |-> 1, summarization |-> 1, mongodb |-> 1,
                mysql |-> 1]

\* the service answered the analysis prompt with a text that holds a fence
AnswerFenced ==
    /\ Classification_done /\ ~gemini_analysis.raises
    /\ FindFence(Strip(gemini_analysis.text), FALSE, 1) # 0

\* the interior of the first fenced block of a text, the json-tagged one
\* first: from after the opening marker up to the next fence, and to the end
\* of the text when no fence follows
FirstBlockInterior(text) ==
    LET open == IF FindFence(text, TRUE, 1) # 0 THEN FindFence(text, TRUE, 1)
                ELSE FindFence(text, FALSE, 1)
        close == FindFence(text, FALSE, open + 1)
    IN  IF close = 0 THEN SubSeq(text, open + 1, Len(text))
        ELSE SubSeq(text, open + 1, close - 1)

\* C27: when the answer of the classification service holds a fenced block,
\* the text handed to the JSON parser is the interior of the first block: up
\* to the next closing fence, and all of the remaining text when no closing
\* fence follows.
C27_FenceInteriorParsed ==
    AnswerFenced =>
        ExtractJson(Strip(gemini_analysis.text))
            = Strip(FirstBlockInterior(Strip(gemini_analysis.text)))

\* whatever was built is what its builder gives on the fetched data
BuiltFromFetchedData ==
    /\ table_data.present => table_data = format_table_data(raw_data)
    /\ chart_data.present
         => chart_data = generate_chart_data(raw_data, analysis)

\* C28: building the table and building the chart each leave the fetched
\* data and the intent descriptor unchanged, so with the builders run in
\* either order the table and the chart are the ones built from the fetched
\* data.
C28_BuildersLeaveData ==
    /\ []BuiltFromFetchedData
    /\ [][raw_data' = raw_data /\ analysis' = analysis]_vars

\* C28 witness: the chart was built first, from profiles of which its filter
\* rejected some, and then the table, with a row for every fetched profile.
C28_Witness ==
    /\ chart_data.present /\ table_data.present
    /\ chart_data.labels # <<>>
    /\ Len(get_filtered_data_for_charts(raw_data, analysis).client_profiles)
         < Len(raw_data.client_profiles)
    /\ Len(table_data.rows) = Len(raw_data.client_profiles)

\* the descriptor of the request with the request's own text as its raw
\* query
RequestDescriptor ==
    [analysis EXCEPT !.keys = @ \cup {"user_query"}, !.user_query = user_query]

\* the service's answer was parsed and holds a user_query of its own
ServiceSuppliedQuery ==
    /\ Classification_done /\ ~gemini_analysis.raises
    /\ LET parsed == json_loads(ExtractJson(Strip(gemini_analysis.text)))
       IN  /\ ~parsed.raised /\ parsed.value.kind = "dict"
           /\ "user_query" \in parsed.value.keys
           /\ parsed.value.user_query # user_query

\* C29: after classification the raw-query field of the descriptor is the
\* request's own text, whatever the service answered, and the profiles
\* fetched and the chart built are those the request's text selects.
C29_RawQueryIsRequestText ==
    (Classification_done /\ analysis.kind = "dict") =>
        /\ analysis = RequestDescriptor
        /\ mongo_read # "none" =>
             raw_data.client_profiles
                 = fetch_mongodb_data(RequestDescriptor, mongo_docs,
                                      mongo_read = "raised")
        /\ chart_data.present =>
             chart_data = generate_chart_data(raw_data, RequestDescriptor)

\* C29 witness: a request answered with success and with profiles, where
\* the service's answer held another query text than the request's.
C29_Witness ==
    /\ ServiceSuppliedQuery
    /\ pc = "responded" /\ response.success
    /\ raw_data.client_profiles # <<>>
    /\ chart_data.present

\* the transactions the chart filter is claimed to keep: with profiles in
\* the fetched data, those of a client whose profile passed the filter; with
\* no profiles, every fetched transaction
TransactionsThroughProfiles ==
    LET kept == ChartInput.client_profiles
        kept_ids == {kept[i].client_id : i \in 1..Len(kept)}
    IN  IF "client_profiles" \in raw_data.keys
          THEN SelectSeq(raw_data.transactions,
                         LAMBDA t : t.client_id \in kept_ids)
          ELSE raw_data.transactions

\* C30: in the chart filter a transaction is kept exactly when its client
\* identifier belongs to a profile that passed the filter, and when the
\* fetched data holds no profiles every fetched transaction is kept.
C30_TransactionsThroughProfiles ==
    (ChartFilterReturned /\ "transactions" \in raw_data.keys) =>
        /\ "transactions" \in ChartInput.keys
        /\ ChartInput.transactions = TransactionsThroughProfiles

\* C30 witness: a chart built from transactions alone for a query that names
\* a city, with every fetched transaction kept.
C30_Witness ==
    /\ ChartFilterReturned
    /\ raw_data.keys = {"transactions"}
    /\ Contains(<<"m","u","m","b","a","i">>, Lower(user_query))
    /\ ChartInput.transactions = raw_data.transactions
    /\ raw_data.transactions # <<>>

====
